---- MODULE Spec2Model ----
(***************************************************************************)
(* A model of the snarkVM ledger state machine                             *)
(* (vm/compiler/src/ledger/mod.rs) and of the coinbase solution check      *)
(* (vm/compiler/src/coinbase_puzzle/helpers/coinbase_solution/mod.rs).     *)
(*                                                                         *)
(* Values.  Hashes, Merkle roots and field elements are modelled as the    *)
(* tuple of what they commit to (a collision-free hash): the default hash  *)
(* and the field zero are the empty tuple.  An Option is a sequence of     *)
(* length 0 (None) or 1 (Some).  A transaction is named by its ID; its     *)
(* content is looked up in TxCatalog.                                      *)
(***************************************************************************)
EXTENDS Integers, Sequences, FiniteSets, TLC

(***************************************************************************)
(* Bounds of the model.                                                    *)
(***************************************************************************)
\* Number of blocks a run appends at most, genesis included.
MaxBlocks == 3
\* Candidate blocks declare heights in 0..MaxHeight.
MaxHeight == 2
\* Candidate blocks declare rounds in 0..MaxRound.
MaxRound == 2
\* Candidate blocks declare timestamps GENESIS_TIMESTAMP + 0..MaxTime.
MaxTime == 2
\* Number of transactions a candidate block lists at most.
MaxTxs == 2
\* Number of transactions the memory pool is filled with at most.
MaxPool == 2

(***************************************************************************)
(* Program constants.                                                      *)
(***************************************************************************)
ANCHOR_TIME == 20
MAX_PROVER_SOLUTIONS == 1048576
NUM_BLOCKS_PER_EPOCH == 256
GENESIS_TIMESTAMP == 1663718400
GENESIS_COINBASE_TARGET == 1023
GENESIS_PROOF_TARGET == 0
\* Transactions::MAX_TRANSACTIONS and MAX_NUM_PROOFS are declared outside the
\* files at hand.
MAX_TRANSACTIONS == 65536
MAX_NUM_PROOFS == 1048576
\* N::ID of the network.
NETWORK_ID == 3
\* The number of seconds in a year, as anchor_block_height uses it.
SECONDS_IN_A_YEAR == 31536000

\* Default::default() of a block hash, and Field::zero().
DefaultHash == <<>>
FieldZero == <<>>
None == <<>>
Some(x) == <<x>>

\* anchor_block_height(anchor_time, num_years)
anchor_block_height(anchor_time, num_years) ==
    (SECONDS_IN_A_YEAR * num_years) \div anchor_time

\* The width of u64 in the model: a u128 has twice the bits of a u64, as in
\* the source, and both are scaled down to the integers of the checker.
U64_BITS == 15
U64_MAX == (2 ^ U64_BITS) - 1
U128_MAX == (2 ^ (2 * U64_BITS)) - 1

\* u128::checked_add, checked_mul and checked_div: None on overflow and on a
\* division by zero.
checked_add(a, b) == IF a > U128_MAX - b THEN None ELSE Some(a + b)
checked_mul(a, b) ==
    IF a = 0 \/ b = 0 THEN Some(0)
    ELSE IF a > U128_MAX \div b THEN None
    ELSE Some(a * b)
checked_div(a, b) == IF b = 0 THEN None ELSE Some(a \div b)

\* u64::try_from(u128): None when the value does not fit.
u64_try_from(a) == IF a > U64_MAX THEN None ELSE Some(a)

(***************************************************************************)
(* Sequence helpers.                                                       *)
(***************************************************************************)
Range(s) == {s[i] : i \in 1..Len(s)}

\* The sequences without repetition over S of length at most n.
DistinctSeqs(S, n) ==
    UNION {{s \in [1..k -> S] : \A i, j \in 1..k : i # j => s[i] # s[j]} : k \in 0..n}

\* IndexMap::remove / IndexSet::remove is swap_remove: the last entry takes the
\* place of the removed one.
swap_remove(s, x) ==
    IF x \notin Range(s) THEN s
    ELSE LET i == CHOOSE k \in 1..Len(s) : s[k] = x
             n == Len(s)
         IN  [k \in 1..(n - 1) |-> IF k = i THEN s[n] ELSE s[k]]

(***************************************************************************)
(* Transactions.  Every field is the set the like-named iterator of        *)
(* Transaction yields; program_id is Some(id) for Transaction::Deploy;     *)
(* verifies is the verdict of vm.verify on the transaction's proofs;       *)
(* calls_genesis: a transition calls credits.aleo/genesis; negative_fee:   *)
(* a transition has a negative fee.                                        *)
(***************************************************************************)
Commitment(c) == <<"Commitment", c>>
StateRoot(r) == <<"StateRoot", r>>

Tx(kind, program, ins, sns, tgs, ors, outs, cms, nns, pks, tcs, ok, gen, neg) ==
    [kind |-> kind, program_id |-> program, input_ids |-> ins,
     serial_numbers |-> sns, tags |-> tgs, origins |-> ors, output_ids |-> outs,
     commitments |-> cms, nonces |-> nns, transition_public_keys |-> pks,
     transition_commitments |-> tcs, verifies |-> ok,
     calls_genesis |-> gen, negative_fee |-> neg]

\* The first of the transactions that fill a block.
BulkTxId == 10

\* Transaction 0 is the genesis transaction: it mints the records 10, 20, 30.
\* 1 and 2 both spend record 10 (one serial number); 3 and 4 deploy the same
\* program, paying from records 20 and 30; 5 spends the record 11 that 1
\* creates; 6 refers to a state root; 7 carries a proof that does not verify;
\* 8 calls credits.aleo/genesis and 9 has a transition of negative fee.  The
\* transactions from BulkTxId on are as many transfers of records of their
\* own as fill a block beyond MAX_TRANSACTIONS.
TxCatalog ==
    [id \in 0..(BulkTxId + MAX_TRANSACTIONS) |->
        CASE id = 0 -> Tx("Execute", None, {0}, {}, {}, {}, {10, 20, 30}, {10, 20, 30},
                          {10, 20, 30}, {0}, {0}, TRUE, TRUE, FALSE)
          [] id = 1 -> Tx("Execute", None, {1}, {1}, {1}, {Commitment(10)}, {11}, {11},
                          {11}, {1}, {1}, TRUE, FALSE, FALSE)
          [] id = 2 -> Tx("Execute", None, {1}, {1}, {1}, {Commitment(10)}, {12}, {12},
                          {12}, {2}, {2}, TRUE, FALSE, FALSE)
          [] id = 3 -> Tx("Deploy", Some(1), {2}, {2}, {2}, {Commitment(20)}, {13}, {13},
                          {13}, {3}, {3}, TRUE, FALSE, FALSE)
          [] id = 4 -> Tx("Deploy", Some(1), {3}, {3}, {3}, {Commitment(30)}, {14}, {14},
                          {14}, {4}, {4}, TRUE, FALSE, FALSE)
          [] id = 5 -> Tx("Execute", None, {5}, {5}, {5}, {Commitment(11)}, {15}, {15},
                          {15}, {5}, {5}, TRUE, FALSE, FALSE)
          [] id = 6 -> Tx("Execute", None, {6}, {}, {}, {StateRoot(0)}, {16}, {16},
                          {16}, {6}, {6}, TRUE, FALSE, FALSE)
          [] id = 7 -> Tx("Execute", None, {7}, {7}, {7}, {Commitment(10)}, {17}, {17},
                          {17}, {7}, {7}, FALSE, FALSE, FALSE)
          [] id = 8 -> Tx("Execute", None, {8}, {}, {}, {}, {18}, {18},
                          {18}, {8}, {8}, TRUE, TRUE, FALSE)
          [] id = 9 -> Tx("Execute", None, {9}, {}, {}, {}, {19}, {19},
                          {19}, {9}, {9}, TRUE, FALSE, TRUE)
          [] OTHER  -> Tx("Execute", None, {id}, {}, {}, {}, {100 + id}, {100 + id},
                          {100 + id}, {id}, {id}, TRUE, FALSE, FALSE)]

\* The transactions that the catalog describes one by one.
NamedTxIds == 0..(BulkTxId - 1)

\* The transactions users submit.
UserTxIds == 1..7

(***************************************************************************)
(* Blocks.                                                                 *)
(***************************************************************************)
Metadata(network, round, height, coinbase_target, proof_target, timestamp) ==
    [network |-> network, round |-> round, height |-> height,
     coinbase_target |-> coinbase_target, proof_target |-> proof_target,
     timestamp |-> timestamp]

Header(state_root, transactions_root, coinbase_accumulator_point, metadata) ==
    [state_root |-> state_root, transactions_root |-> transactions_root,
     coinbase_accumulator_point |-> coinbase_accumulator_point,
     metadata |-> metadata]

\* Transactions::to_root: the Merkle root of the transaction IDs, in order.
transactions_to_root(transactions) == <<"transactions", transactions>>

\* Header::to_root: the Merkle root of the header's fields.
header_to_root(header) == <<"header", header>>

\* N::hash_bhp1024(previous_hash bits || header_root bits)
hash_bhp1024(previous_hash, header_root) == <<previous_hash, header_root>>

\* A block as Block::new makes it: the hash is computed from the previous hash
\* and the header, the signature is that of the given signer.
Block(signer, previous_hash, header, transactions, coinbase_proof) ==
    [previous_hash |-> previous_hash, header |-> header,
     transactions |-> transactions, coinbase_proof |-> coinbase_proof,
     signature |-> signer,
     hash |-> hash_bhp1024(previous_hash, header_to_root(header))]

block_height(block) == block.header.metadata.height
block_round(block) == block.header.metadata.round
block_timestamp(block) == block.header.metadata.timestamp
block_epoch_number(block) == block_height(block) \div NUM_BLOCKS_PER_EPOCH

\* A field of a transaction: the serial numbers, commitments, nonces, ... of
\* its transitions.
TxField(transaction, field) == TxCatalog[transaction][field]

\* Metadata::is_genesis and Header::is_genesis / Block::is_genesis.
is_genesis(block) ==
    /\ block.previous_hash = DefaultHash
    /\ block.header.metadata.network = NETWORK_ID
    /\ block_height(block) = 0
    /\ block_round(block) = 0
    /\ block_timestamp(block) = GENESIS_TIMESTAMP
    /\ block.header.metadata.coinbase_target = GENESIS_COINBASE_TARGET
    /\ block.header.metadata.proof_target = GENESIS_PROOF_TARGET
    /\ block.header.coinbase_accumulator_point = FieldZero
    /\ block.coinbase_proof = None

\* Header::is_valid: the sub-field ranges and the network ID.
header_is_valid(header) == header.metadata.network = NETWORK_ID

(***************************************************************************)
(* Prover solutions and coinbase solutions.                                *)
(***************************************************************************)
\* EpochChallenge::new(epoch_number, epoch_block_hash, degree)
EpochChallenge(epoch_number, epoch_block_hash) == <<epoch_number, epoch_block_hash>>

\* The commitment to the prover polynomial of (epoch challenge, address, nonce).
prover_commitment(epoch_challenge, address, nonce) == <<epoch_challenge, address, nonce>>

\* A partial solution: to_target() is derived from the commitment alone, so
\* it is a field of the solution.
PartialSolution(address, nonce, commitment, target) ==
    [address |-> address, nonce |-> nonce, commitment |-> commitment,
     target |-> target]

\* hash_commitments: n + 1 challenge points out of the n commitments in order.
hash_commitments(partial_solutions) ==
    [i \in 1..(Len(partial_solutions) + 1) |->
        <<i, [k \in 1..Len(partial_solutions) |-> partial_solutions[k].commitment]>>]

\* CoinbaseSolution::to_cumulative_target: the checked u128 sum; None on
\* overflow.
RECURSIVE SumTargets(_)
SumTargets(partial_solutions) ==
    IF partial_solutions = <<>> THEN 0
    ELSE partial_solutions[1].target + SumTargets(Tail(partial_solutions))

\* try_fold(0u128, |cumulative, solution| cumulative.checked_add(target))
RECURSIVE checked_sum(_, _)
checked_sum(cumulative, partial_solutions) ==
    IF partial_solutions = <<>> THEN Some(cumulative)
    ELSE LET next == checked_add(cumulative, partial_solutions[1].target)
         IN  IF next = None THEN None
             ELSE checked_sum(next[1], Tail(partial_solutions))

to_cumulative_target(coinbase_solution) ==
    checked_sum(0, coinbase_solution.partial_solutions)

\* CoinbaseSolution::to_accumulator_point: the last challenge point.
to_accumulator_point(coinbase_solution) ==
    LET challenge_points == hash_commitments(coinbase_solution.partial_solutions)
    IN  challenge_points[Len(challenge_points)]

\* The opening that CoinbasePuzzle::accumulate computes for the solutions.
kzg_open(epoch_challenge, partial_solutions) ==
    <<epoch_challenge, hash_commitments(partial_solutions)>>

\* KZG10::check on the accumulated commitment and evaluation: the commitments
\* are those of the prover polynomials of this epoch and the proof opens them.
kzg_check(epoch_challenge, coinbase_solution) ==
    /\ \A i \in 1..Len(coinbase_solution.partial_solutions) :
          LET solution == coinbase_solution.partial_solutions[i]
          IN  solution.commitment
                = prover_commitment(epoch_challenge, solution.address, solution.nonce)
    /\ coinbase_solution.proof.opening
          = kzg_open(epoch_challenge, coinbase_solution.partial_solutions)

\* A variant that does not compare the targets of the partial solutions with
\* the proof target.
coinbase_solution_verify_any_target(coinbase_solution, epoch_challenge, coinbase_target, proof_target) ==
    LET partial_solutions == coinbase_solution.partial_solutions
        cumulative == to_cumulative_target(coinbase_solution)
    IN  IF partial_solutions = <<>> THEN "empty"
        ELSE IF Len(partial_solutions) > MAX_NUM_PROOFS THEN "too many"
        ELSE IF coinbase_solution.proof.hiding THEN "hiding"
        ELSE IF cumulative = None THEN "overflow"
        ELSE IF cumulative[1] < coinbase_target THEN "coinbase target"
        ELSE IF kzg_check(epoch_challenge, coinbase_solution) THEN "true"
        ELSE "false"

\* CoinbaseSolution::verify: "true" or "false" for Ok(_), otherwise the error.
coinbase_solution_verify(coinbase_solution, epoch_challenge, coinbase_target, proof_target) ==
    LET partial_solutions == coinbase_solution.partial_solutions
        cumulative == to_cumulative_target(coinbase_solution)
    IN  IF partial_solutions = <<>> THEN "empty"
        ELSE IF Len(partial_solutions) > MAX_NUM_PROOFS THEN "too many"
        ELSE IF coinbase_solution.proof.hiding THEN "hiding"
        ELSE IF cumulative = None THEN "overflow"
        ELSE IF cumulative[1] < coinbase_target THEN "coinbase target"
        ELSE IF \E i \in 1..Len(partial_solutions) :
                    partial_solutions[i].target < proof_target THEN "proof target"
        ELSE IF kzg_check(epoch_challenge, coinbase_solution) THEN "true"
        ELSE "false"

(***************************************************************************)
(* The ledger.  A ledger value L is the record of the fields of Ledger.    *)
(* L.blocks maps every stored height to its block; the transaction and     *)
(* transition stores are handles into the block store, so what they hold   *)
(* is derived from L.blocks.  L.vm is the set of deployed program IDs.     *)
(***************************************************************************)
StoredTxIds(L) == UNION {Range(L.blocks[h].transactions) : h \in DOMAIN L.blocks}
StoredField(L, field) == UNION {TxCatalog[id][field] : id \in StoredTxIds(L)}

contains_block_hash(L, hash) == \E h \in DOMAIN L.blocks : L.blocks[h].hash = hash
contains_block_height(L, height) == height \in DOMAIN L.blocks
contains_transaction_id(L, id) == id \in StoredTxIds(L)
contains_input_id(L, x) == x \in StoredField(L, "input_ids")
contains_serial_number(L, x) == x \in StoredField(L, "serial_numbers")
contains_tag(L, x) == x \in StoredField(L, "tags")
contains_output_id(L, x) == x \in StoredField(L, "output_ids")
contains_commitment(L, x) == x \in StoredField(L, "commitments")
contains_nonce(L, x) == x \in StoredField(L, "nonces")
contains_tpk(L, x) == x \in StoredField(L, "transition_public_keys")
contains_tcm(L, x) == x \in StoredField(L, "transition_commitments")
contains_program_id(L, x) == x \in L.vm

latest_height(L) == L.current_height
latest_hash(L) == L.current_hash
latest_round(L) == L.current_round
latest_epoch_number(L) == L.current_height \div NUM_BLOCKS_PER_EPOCH
\* Option: None when there is no block at the current height.
latest_block(L) ==
    IF L.current_height \in DOMAIN L.blocks THEN Some(L.blocks[L.current_height])
    ELSE None
latest_coinbase_target(L) == latest_block(L)[1].header.metadata.coinbase_target
latest_proof_target(L) == latest_block(L)[1].header.metadata.proof_target
\* BlockTree::root: the Merkle root over the leaves.
latest_state_root(L) == <<"blocks", L.block_tree>>
\* Option: None when the block that starts the epoch is not stored.
latest_epoch_challenge(L) ==
    LET start == latest_epoch_number(L) * NUM_BLOCKS_PER_EPOCH
    IN  IF start \in DOMAIN L.blocks
        THEN Some(EpochChallenge(latest_epoch_number(L), L.blocks[start].hash))
        ELSE None

\* VM::verify
vm_verify(vm, id) == TxCatalog[id].verifies

\* VM::finalize: [ok, vm].  A deployment of a program that is deployed
\* already fails.
vm_finalize(vm, id) ==
    LET program == TxCatalog[id].program_id
    IN  IF program = None THEN [ok |-> TRUE, vm |-> vm]
        ELSE IF program[1] \in vm THEN [ok |-> FALSE, vm |-> vm]
        ELSE [ok |-> TRUE, vm |-> vm \cup {program[1]}]

\* A variant that accepts every state root.
invalid_origin_commitment_only(L, origin) ==
    origin[1] = "Commitment" /\ ~contains_commitment(L, origin[2])

\* The match on an origin in check_transaction and check_next_block: a
\* commitment must be in the ledger, and a state root is an error.
invalid_origin(L, origin) ==
    \/ origin[1] = "StateRoot"
    \/ origin[1] = "Commitment" /\ ~contains_commitment(L, origin[2])

\* Ledger::check_transaction: "ok" or the error.
check_transaction(L, id) ==
    LET transaction == TxCatalog[id]
    IN  IF ~vm_verify(L.vm, id) THEN "invalid"
        ELSE IF contains_transaction_id(L, id) THEN "transaction exists"
        ELSE IF \E x \in transaction.input_ids : contains_input_id(L, x)
             THEN "input ID exists"
        ELSE IF \E x \in transaction.serial_numbers : contains_serial_number(L, x)
             THEN "serial number exists"
        ELSE IF \E x \in transaction.tags : contains_tag(L, x) THEN "tag exists"
        ELSE IF \E o \in transaction.origins : invalid_origin(L, o)
             THEN "origin"
        ELSE IF \E x \in transaction.output_ids : contains_output_id(L, x)
             THEN "output ID exists"
        ELSE IF \E x \in transaction.commitments : contains_commitment(L, x)
             THEN "commitment exists"
        ELSE IF \E x \in transaction.nonces : contains_nonce(L, x) THEN "nonce exists"
        ELSE IF transaction.kind = "Deploy"
                /\ contains_program_id(L, transaction.program_id[1])
             THEN "program ID exists"
        ELSE IF \E x \in transaction.transition_public_keys : contains_tpk(L, x)
             THEN "tpk exists"
        ELSE IF \E x \in transaction.transition_commitments : contains_tcm(L, x)
             THEN "tcm exists"
        ELSE "ok"

\* A variant that compares the previous hash only past the genesis block,
\* as the checks of the height and the round do.
incorrect_previous_hash_past_genesis(L, block) ==
    latest_height(L) > 0 /\ L.current_hash # block.previous_hash

\* check_next_block: the previous block hash is not the current hash.
incorrect_previous_hash(L, block) == L.current_hash # block.previous_hash

\* check_next_block: the height is not the next height.
incorrect_height(L, block) ==
    latest_height(L) > 0 /\ latest_height(L) + 1 # block_height(block)

\* check_next_block: the round is not the next round.
incorrect_round(L, block) ==
    latest_round(L) > 0 /\ latest_round(L) + 1 # block_round(block)

\* A variant that lets a block repeat the timestamp of the latest block.
incorrect_timestamp_allows_equal(L, block) ==
    /\ block_height(block) > 0
    /\ block_timestamp(block) < block_timestamp(latest_block(L)[1])

\* check_next_block: the timestamp is not after that of the latest block.
incorrect_timestamp(L, block) ==
    /\ block_height(block) > 0
    /\ block_timestamp(block) <= block_timestamp(latest_block(L)[1])

\* A variant that accepts the signature of every known address.
unauthorized_validator_unknown(L, block) ==
    block.signature \notin Range(L.validators) \cup {"aleo1", "aleo2", "aleo3"}

\* check_next_block: the signer of the block is not in the validator set.
unauthorized_validator(L, block) == block.signature \notin Range(L.validators)

\* A variant that lets a block without a coinbase proof declare any
\* accumulator point.
accumulator_point_not_zero_unchecked(block) == FALSE

\* check_next_block: a block without a coinbase proof declares an accumulator
\* point other than the field zero.
accumulator_point_not_zero(block) ==
    /\ block.coinbase_proof = None
    /\ block.header.coinbase_accumulator_point # FieldZero

\* A variant that checks the first transaction of the list only.
invalid_transaction_found_first(L, transactions) ==
    transactions # <<>> /\ check_transaction(L, transactions[1]) # "ok"

\* check_next_block: `!transactions_iter.all(|transaction|
\* self.check_transaction(transaction).is_ok())`.
invalid_transaction_found(L, transactions) ==
    \E i \in 1..Len(transactions) : check_transaction(L, transactions[i]) # "ok"

\* A variant that does not look at the sign of the fees.
RECURSIVE incorrect_fee_unsigned(_, _)
incorrect_fee_unsigned(height, walk) ==
    IF walk = <<>> THEN "ok"
    ELSE IF height > 0 /\ TxCatalog[walk[1]].calls_genesis THEN "genesis function"
    ELSE incorrect_fee_unsigned(height, Tail(walk))

\* check_next_block: the loop over the transitions of the block, which past
\* height 0 fails at the first call of credits.aleo/genesis or negative fee.
RECURSIVE incorrect_fee(_, _)
incorrect_fee(height, walk) ==
    IF walk = <<>> THEN "ok"
    ELSE IF height > 0 /\ TxCatalog[walk[1]].calls_genesis THEN "genesis function"
    ELSE IF height > 0 /\ TxCatalog[walk[1]].negative_fee THEN "negative fee"
    ELSE incorrect_fee(height, Tail(walk))

\* Ledger::check_next_block: "ok", the error, or "panic".
check_next_block(L, block) ==
    LET height == block_height(block)
        transactions == block.transactions
        header == block.header
    IN  IF incorrect_previous_hash(L, block) THEN "previous hash"
        ELSE IF contains_block_hash(L, block.hash) THEN "block hash exists"
        ELSE IF incorrect_height(L, block) THEN "block height"
        ELSE IF contains_block_height(L, height) THEN "block height exists"
        ELSE IF incorrect_round(L, block) THEN "round"
        ELSE IF height > 0 /\ latest_block(L) = None THEN "no latest block"
        ELSE IF incorrect_timestamp(L, block) THEN "timestamp"
        ELSE IF \E i \in 1..Len(transactions) :
                    contains_transaction_id(L, transactions[i])
             THEN "transaction exists"
        ELSE IF \E i \in 1..Len(transactions) :
                    \E o \in TxField(transactions[i], "origins") : invalid_origin(L, o)
             THEN "origin"
        ELSE IF \E i \in 1..Len(transactions) :
                    \E x \in TxField(transactions[i], "serial_numbers") :
                        contains_serial_number(L, x)
             THEN "serial number exists"
        ELSE IF \E i \in 1..Len(transactions) :
                    \E x \in TxField(transactions[i], "commitments") :
                        contains_commitment(L, x)
             THEN "commitment exists"
        ELSE IF \E i \in 1..Len(transactions) :
                    \E x \in TxField(transactions[i], "nonces") : contains_nonce(L, x)
             THEN "nonce exists"
        ELSE IF \E i \in 1..Len(transactions) :
                    \E x \in TxField(transactions[i], "transition_public_keys") :
                        contains_tpk(L, x)
             THEN "tpk exists"
        ELSE IF height = 0 /\ ~is_genesis(block) THEN "genesis"
        ELSE IF ~header_is_valid(header) THEN "header"
        ELSE IF hash_bhp1024(block.previous_hash, header_to_root(header)) # block.hash
             THEN "block hash"
        ELSE IF unauthorized_validator(L, block)
             THEN IF L.validators = <<>> THEN "panic" ELSE "validator"
        ELSE IF transactions_to_root(transactions) # header.transactions_root
             THEN "transactions root"
        ELSE IF transactions = <<>> THEN "empty transactions"
        ELSE IF Len(transactions) > MAX_TRANSACTIONS THEN "too many transactions"
        ELSE IF invalid_transaction_found(L, transactions) THEN "invalid transaction"
        ELSE IF block.coinbase_proof # None
                /\ height > anchor_block_height(ANCHOR_TIME, 10)
             THEN "coinbase after year 10"
        ELSE IF block.coinbase_proof # None
                /\ header.coinbase_accumulator_point
                     # to_accumulator_point(block.coinbase_proof[1])
             THEN "accumulator point"
        ELSE IF block.coinbase_proof # None
                /\ (latest_epoch_challenge(L) = None \/ latest_block(L) = None)
             THEN "no epoch"
        ELSE IF block.coinbase_proof # None
                /\ coinbase_solution_verify(block.coinbase_proof[1],
                        latest_epoch_challenge(L)[1], latest_coinbase_target(L),
                        latest_proof_target(L)) # "true"
             THEN "coinbase proof"
        ELSE IF accumulator_point_not_zero(block)
             THEN "accumulator point not zero"
        ELSE incorrect_fee(height, transactions)

\* The loop of vm.finalize over the transactions of a block: [ok, vm], the
\* VM as the loop leaves it.
RECURSIVE finalize_all(_, _)
finalize_all(vm, transactions) ==
    IF transactions = <<>> THEN [ok |-> TRUE, vm |-> vm]
    ELSE LET first == vm_finalize(vm, transactions[1])
         IN  IF first.ok THEN finalize_all(first.vm, Tail(transactions)) ELSE first

\* A variant that removes only the transactions the ledger now contains.
RECURSIVE clear_memory_pool_included(_, _, _)
clear_memory_pool_included(ledger, walk, pool) ==
    IF walk = <<>> THEN pool
    ELSE clear_memory_pool_included(ledger, Tail(walk),
            IF contains_transaction_id(ledger, walk[1])
            THEN swap_remove(pool, walk[1]) ELSE pool)

\* The loop that clears the memory pool: it walks the pool of self and removes
\* from the pool of `ledger` every transaction `ledger` no longer accepts.
RECURSIVE clear_memory_pool(_, _, _)
clear_memory_pool(ledger, walk, pool) ==
    IF walk = <<>> THEN pool
    ELSE clear_memory_pool(ledger, Tail(walk),
            IF check_transaction(ledger, walk[1]) # "ok"
            THEN swap_remove(pool, walk[1]) ELSE pool)

\* A variant that stores no block.
blocks_insert_nowhere(blocks, block) == blocks

\* BlockStore::insert
blocks_insert(blocks, block) ==
    [h \in DOMAIN blocks \cup {block_height(block)} |->
        IF h = block_height(block) THEN block ELSE blocks[h]]

\* A variant that leaves the current round as it was.
update_current_keeps_round(ledger, block) ==
    [ledger EXCEPT !.current_hash = block.hash,
                   !.current_height = block_height(block)]

\* add_next_block: the current hash, height and round become the block's.
update_current(ledger, block) ==
    [ledger EXCEPT !.current_hash = block.hash,
                   !.current_height = block_height(block),
                   !.current_round = block_round(block)]

\* A variant that never clears the coinbase memory pool.
clear_coinbase_memory_pool_never(ledger, L, block) == ledger

\* add_next_block: the coinbase memory pool is cleared when the block starts
\* a new epoch; L is self, whose epoch is that of the tip before the block.
clear_coinbase_memory_pool(ledger, L, block) ==
    IF block_epoch_number(block) > latest_epoch_number(L)
    THEN [ledger EXCEPT !.coinbase_memory_pool = <<>>]
    ELSE ledger

\* Ledger::add_next_block: [result, self], the verdict and the ledger the call
\* leaves behind.  `ledger` is self.clone().  The stores are handles: a clone of
\* a store reads and writes the maps of the original (Ledger::transitions, a
\* clone taken at construction, answers to_state_path for blocks inserted
\* later through Ledger::blocks), so blocks.insert on the clone is a write to
\* the store of self as well.  Every other field is cloned by value.
add_next_block(L, block) ==
    LET checked == check_next_block(L, block)
        inserted == blocks_insert(L.blocks, block)
        ledger == [update_current(L, block) EXCEPT
                      !.block_tree = Append(L.block_tree, block.hash),
                      !.blocks = inserted]
        finalized == finalize_all(ledger.vm, block.transactions)
        updated == [ledger EXCEPT !.vm = finalized.vm]
        cleared == [updated EXCEPT
                      !.memory_pool = clear_memory_pool(updated, L.memory_pool,
                                                        updated.memory_pool)]
        done == clear_coinbase_memory_pool(cleared, L, block)
    IN  IF checked # "ok" THEN [result |-> checked, self |-> L]
        ELSE IF ~finalized.ok
             THEN [result |-> "finalize", self |-> [L EXCEPT !.blocks = inserted]]
        ELSE [result |-> "ok", self |-> done]

\* A variant that does not look for the transaction in the memory pool.
add_to_memory_pool_again(L, id) ==
    IF check_transaction(L, id) # "ok"
    THEN [result |-> check_transaction(L, id), self |-> L]
    ELSE [result |-> "ok",
          self |-> [L EXCEPT !.memory_pool = Append(L.memory_pool, id)]]

\* Ledger::add_to_memory_pool: [result, self].
add_to_memory_pool(L, id) ==
    IF id \in Range(L.memory_pool) THEN [result |-> "in memory pool", self |-> L]
    ELSE IF check_transaction(L, id) # "ok"
         THEN [result |-> check_transaction(L, id), self |-> L]
    ELSE [result |-> "ok",
          self |-> [L EXCEPT !.memory_pool = Append(L.memory_pool, id)]]

(***************************************************************************)
(* The inputs: the genesis block and the blocks a caller may hand to       *)
(* add_next_block in a given ledger state.                                 *)
(***************************************************************************)
Addresses == {"aleo1", "aleo2"}
GenesisSigner == "aleo1"

GenesisBlock ==
    Block(GenesisSigner, DefaultHash,
          Header(FieldZero, transactions_to_root(<<0>>), FieldZero,
                 Metadata(NETWORK_ID, 0, 0, GENESIS_COINBASE_TARGET,
                          GENESIS_PROOF_TARGET, GENESIS_TIMESTAMP)),
          <<0>>, None)

\* The prover solutions of the model, proved against a given epoch challenge;
\* their targets are 600, 500 and 1.
SolutionOf(epoch_challenge, nonce) ==
    PartialSolution(GenesisSigner, nonce,
                    prover_commitment(epoch_challenge, GenesisSigner, nonce),
                    CASE nonce = 1 -> 600 [] nonce = 2 -> 500 [] OTHER -> 1)

\* CoinbasePuzzle::accumulate
accumulate(epoch_challenge, partial_solutions) ==
    [partial_solutions |-> partial_solutions,
     proof |-> [hiding |-> FALSE,
                opening |-> kzg_open(epoch_challenge, partial_solutions)]]

\* The choices a well-formed next block is built from, for a list of
\* transactions: what a proposer working on L would declare.
BaseChoice(L, transactions) ==
    [previous_hash |-> L.current_hash,
     height |-> latest_height(L) + 1,
     round |-> latest_round(L) + 1,
     timestamp |-> block_timestamp(latest_block(L)[1]) + 1,
     network |-> NETWORK_ID,
     coinbase_target |-> latest_coinbase_target(L),
     proof_target |-> latest_proof_target(L),
     state_root |-> latest_state_root(L),
     transactions |-> transactions,
     transactions_root |-> transactions_to_root(transactions),
     coinbase_proof |-> None,
     coinbase_accumulator_point |-> FieldZero,
     signer |-> GenesisSigner,
     hash_is_computed |-> TRUE]

\* The coinbase solutions a caller may attach on top of L, each with the
\* accumulator point the header declares for it.
CoinbaseChoices(L) ==
    LET challenge == latest_epoch_challenge(L)[1]
        s1 == SolutionOf(challenge, 1)
        s2 == SolutionOf(challenge, 2)
        stale == SolutionOf(EpochChallenge(1, DefaultHash), 1)
        good == accumulate(challenge, <<s1, s2>>)
        low == accumulate(challenge, <<s1>>)
    IN  {<<Some(good), to_accumulator_point(good)>>,
         <<Some(good), FieldZero>>,
         <<None, to_accumulator_point(good)>>,
         <<Some(low), to_accumulator_point(low)>>,
         <<Some([good EXCEPT !.proof.hiding = TRUE]), to_accumulator_point(good)>>,
         <<Some([good EXCEPT !.proof.opening = kzg_open(challenge, <<s1>>)]),
           to_accumulator_point(good)>>,
         <<Some(accumulate(challenge, <<stale, s2>>)),
           to_accumulator_point(accumulate(challenge, <<stale, s2>>))>>,
         <<Some(accumulate(challenge, <<>>)),
           to_accumulator_point(accumulate(challenge, <<>>))>>}

\* The choices that differ from the well-formed ones in one field.
Variations(L, transactions) ==
    LET base == BaseChoice(L, transactions)
    IN  {[base EXCEPT !.previous_hash = x] : x \in {DefaultHash} \cup Range(L.block_tree)}
        \cup {[base EXCEPT !.height = x] : x \in 0..MaxHeight}
        \cup {[base EXCEPT !.round = x] : x \in 0..MaxRound}
        \cup {[base EXCEPT !.timestamp = GENESIS_TIMESTAMP + x] : x \in 0..MaxTime}
        \cup {[base EXCEPT !.network = 0]}
        \cup {[base EXCEPT !.state_root = x] :
                x \in {FieldZero, latest_state_root([block_tree |-> <<>>])}}
        \cup {[base EXCEPT !.transactions_root = transactions_to_root(<<>>)]}
        \cup {[base EXCEPT !.signer = x] : x \in Addresses}
        \cup {[base EXCEPT !.hash_is_computed = FALSE]}
        \cup {[base EXCEPT !.coinbase_proof = x[1],
                           !.coinbase_accumulator_point = x[2]] : x \in CoinbaseChoices(L)}

\* The block of a choice.
BlockOf(c) ==
    LET block == Block(c.signer, c.previous_hash,
                       Header(c.state_root, c.transactions_root,
                              c.coinbase_accumulator_point,
                              Metadata(c.network, c.round, c.height, c.coinbase_target,
                                       c.proof_target, c.timestamp)),
                       c.transactions, c.coinbase_proof)
    IN  IF c.hash_is_computed THEN block ELSE [block EXCEPT !.hash = DefaultHash]

\* The lists of transactions of the candidate blocks: the empty list, every
\* single transaction, and every list of at most MaxTxs transactions that
\* pass check_transaction one by one.
TransactionLists(L) ==
    {<<id>> : id \in UserTxIds}
    \cup DistinctSeqs({id \in UserTxIds : check_transaction(L, id) = "ok"}, MaxTxs)

\* The candidate blocks in ledger state L: the well-formed block of every
\* list of transactions, and the one-field variations of the blocks of one
\* transaction.
CandidateBlocks(L) ==
    {BlockOf(BaseChoice(L, t)) : t \in TransactionLists(L)}
    \cup UNION {{BlockOf(c) : c \in Variations(L, <<id>>)} : id \in UserTxIds}

(***************************************************************************)
(* The pools, the validator set and the proposal of a block.               *)
(***************************************************************************)
\* A prover solution: a partial solution and the proof of its opening.
ProverSolution(partial_solution, proof) ==
    [partial_solution |-> partial_solution, proof |-> proof]

\* CoinbasePuzzle::prove(epoch_challenge, address, nonce)
prove(epoch_challenge, nonce) ==
    LET partial_solution == SolutionOf(epoch_challenge, nonce)
    IN  ProverSolution(partial_solution, <<"opening", partial_solution.commitment>>)

\* ProverSolution::verify: "err" for Err(_), otherwise the boolean of Ok(_).
prover_solution_verify(prover_solution, epoch_challenge, proof_target) ==
    LET solution == prover_solution.partial_solution
    IN  IF solution.target < proof_target THEN "false"
        ELSE IF /\ solution.commitment
                     = prover_commitment(epoch_challenge, solution.address, solution.nonce)
                /\ prover_solution.proof = <<"opening", solution.commitment>>
             THEN "true"
        ELSE "false"

\* A variant that admits a solution whatever its target.
add_to_coinbase_memory_pool_any_target(L, prover_solution) ==
    IF latest_height(L) > anchor_block_height(ANCHOR_TIME, 10) THEN [result |-> "year 10", self |-> L]
    ELSE IF latest_epoch_challenge(L) = None \/ latest_block(L) = None
         THEN [result |-> "no epoch", self |-> L]
    ELSE IF prover_solution_verify(prover_solution, latest_epoch_challenge(L)[1], 0) # "true"
         THEN [result |-> "invalid", self |-> L]
    ELSE IF prover_solution \in Range(L.coinbase_memory_pool)
         THEN [result |-> "in memory pool", self |-> L]
    ELSE [result |-> "ok",
          self |-> [L EXCEPT !.coinbase_memory_pool = Append(@, prover_solution)]]

\* Ledger::add_to_coinbase_memory_pool: [result, self].
add_to_coinbase_memory_pool(L, prover_solution) ==
    IF latest_height(L) > anchor_block_height(ANCHOR_TIME, 10) THEN [result |-> "year 10", self |-> L]
    ELSE IF latest_epoch_challenge(L) = None \/ latest_block(L) = None
         THEN [result |-> "no epoch", self |-> L]
    ELSE IF prover_solution_verify(prover_solution, latest_epoch_challenge(L)[1],
                                   latest_proof_target(L)) # "true"
         THEN [result |-> "invalid", self |-> L]
    ELSE IF prover_solution \in Range(L.coinbase_memory_pool)
         THEN [result |-> "in memory pool", self |-> L]
    ELSE [result |-> "ok",
          self |-> [L EXCEPT !.coinbase_memory_pool = Append(@, prover_solution)]]

\* A variant that reports no address as present.
add_validator_overwrites(L, address) ==
    IF address \in Range(L.validators) THEN [result |-> "ok", self |-> L]
    ELSE [result |-> "ok", self |-> [L EXCEPT !.validators = Append(@, address)]]

\* Ledger::add_validator: [result, self].
add_validator(L, address) ==
    IF address \in Range(L.validators) THEN [result |-> "in validator set", self |-> L]
    ELSE [result |-> "ok", self |-> [L EXCEPT !.validators = Append(@, address)]]

\* A variant that removes the address and shifts the ones after it.
remove_validator_shift(L, address) ==
    IF address \notin Range(L.validators)
    THEN [result |-> "not in validator set", self |-> L]
    ELSE [result |-> "ok",
          self |-> [L EXCEPT !.validators = SelectSeq(@, LAMBDA a : a # address)]]

\* Ledger::remove_validator: [result, self]; IndexMap::remove.
remove_validator(L, address) ==
    IF address \notin Range(L.validators)
    THEN [result |-> "not in validator set", self |-> L]
    ELSE [result |-> "ok",
          self |-> [L EXCEPT !.validators = swap_remove(@, address)]]

\* A variant that selects every transaction of the pool.
RECURSIVE select_transactions_all(_, _, _)
select_transactions_all(walk, transactions, input_ids) ==
    IF walk = <<>> THEN transactions
    ELSE select_transactions_all(Tail(walk), Append(transactions, walk[1]), input_ids)

\* propose_next_block: the loop over the memory pool that takes a transaction
\* unless one of its input IDs is an input ID of a transaction taken before.
RECURSIVE select_transactions(_, _, _)
select_transactions(walk, transactions, input_ids) ==
    IF walk = <<>> THEN transactions
    ELSE IF TxCatalog[walk[1]].input_ids \cap input_ids # {}
         THEN select_transactions(Tail(walk), transactions, input_ids)
    ELSE select_transactions(Tail(walk), Append(transactions, walk[1]),
                             input_ids \cup TxCatalog[walk[1]].input_ids)

\* coinbase_target(previous_coinbase_target, previous_timestamp, timestamp):
\* the retargeting; the target rises when the block comes before the anchor
\* time.
coinbase_target(previous_coinbase_target, previous_timestamp, timestamp) ==
    IF timestamp - previous_timestamp < ANCHOR_TIME
    THEN previous_coinbase_target + 1
    ELSE previous_coinbase_target

\* proof_target(coinbase_target): a monotone function of the coinbase target.
proof_target(target) == (target \div 128) + 1

\* The first n elements of a sequence: Iterator::take.
take(s, n) == SubSeq(s, 1, IF Len(s) < n THEN Len(s) ELSE n)

\* coinbase_reward(previous_timestamp, timestamp, next_height): a u64 that
\* falls as the chain grows.
coinbase_reward(previous_timestamp, timestamp, next_height) ==
    Some(U64_MAX \div (next_height + 1))

\* A variant that divides by the cumulative target and not by twice it.
prover_reward_whole(reward, target, cumulative_prover_target) ==
    LET numerator == checked_mul(reward, target)
        denominator == checked_mul(cumulative_prover_target, 1)
    IN  IF numerator = None THEN [result |-> "numerator overflowed"]
        ELSE IF denominator = None THEN [result |-> "denominator overflowed"]
        ELSE IF checked_div(numerator[1], denominator[1]) = None
             THEN [result |-> "reward overflowed"]
        ELSE IF u64_try_from(checked_div(numerator[1], denominator[1])[1]) = None
             THEN [result |-> "out of range"]
        ELSE [result |-> "ok",
              reward |-> u64_try_from(checked_div(numerator[1], denominator[1])[1])[1]]

\* The body of the loop over the prover solutions of propose_next_block:
\* [result, reward] of one prover solution.
prover_reward(reward, target, cumulative_prover_target) ==
    LET numerator == checked_mul(reward, target)
        denominator == checked_mul(cumulative_prover_target, 2)
    IN  IF numerator = None THEN [result |-> "numerator overflowed"]
        ELSE IF denominator = None THEN [result |-> "denominator overflowed"]
        ELSE IF checked_div(numerator[1], denominator[1]) = None
             THEN [result |-> "reward overflowed"]
        ELSE IF u64_try_from(checked_div(numerator[1], denominator[1])[1]) = None
             THEN [result |-> "out of range"]
        ELSE [result |-> "ok",
              reward |-> u64_try_from(checked_div(numerator[1], denominator[1])[1])[1]]

\* The loop over the prover solutions: [result, prover_rewards], the result
\* that of the first solution whose reward fails.
RECURSIVE prover_rewards(_, _, _, _)
prover_rewards(reward, walk, cumulative_prover_target, rewards) ==
    IF walk = <<>> THEN [result |-> "ok", prover_rewards |-> rewards]
    ELSE LET one == prover_reward(reward, walk[1].target, cumulative_prover_target)
         IN  IF one.result # "ok" THEN [result |-> one.result, prover_rewards |-> rewards]
             ELSE prover_rewards(reward, Tail(walk), cumulative_prover_target,
                                 Append(rewards, <<walk[1].address, one.reward>>))

\* A variant that keeps the targets of the latest block.
proposed_metadata_same_targets(L, block, timestamp) ==
    Metadata(NETWORK_ID, block_round(block) + 1, latest_height(L) + 1,
             latest_coinbase_target(L), latest_proof_target(L), timestamp)

\* The metadata of the block that propose_next_block builds on the latest
\* block: the next round and height and the new targets.
proposed_metadata(L, block, timestamp) ==
    LET target == coinbase_target(latest_coinbase_target(L), block_timestamp(block),
                                  timestamp)
    IN  Metadata(NETWORK_ID, block_round(block) + 1, latest_height(L) + 1,
                 target, proof_target(target), timestamp)

\* A variant that leaves the proof out only past the anchor height.
without_coinbase_past_anchor(L, cumulative_prover_target) ==
    latest_height(L) > anchor_block_height(ANCHOR_TIME, 10)

\* The condition of propose_next_block under which the block gets no
\* coinbase proof.
without_coinbase(L, cumulative_prover_target) ==
    \/ latest_height(L) > anchor_block_height(ANCHOR_TIME, 10)
    \/ cumulative_prover_target < latest_coinbase_target(L)

\* The block that propose_next_block builds once nothing has failed.
proposed_block(L, private_key, timestamp, partial_solutions, cumulative_prover_target) ==
    LET transactions == select_transactions(L.memory_pool, <<>>, {})
        without == without_coinbase(L, cumulative_prover_target)
        coinbase_proof ==
            IF without THEN None
            ELSE Some(accumulate(latest_epoch_challenge(L)[1], partial_solutions))
        coinbase_accumulator_point ==
            IF without THEN FieldZero ELSE to_accumulator_point(coinbase_proof[1])
        block == latest_block(L)[1]
        metadata == proposed_metadata(L, block, timestamp)
        header == Header(latest_state_root(L), transactions_to_root(transactions),
                         coinbase_accumulator_point, metadata)
    IN  Block(private_key, block.hash, header, transactions, coinbase_proof)

\* Ledger::propose_next_block, with the timestamp of the clock as an input:
\* [result, block].
propose_next_block(L, private_key, timestamp) ==
    LET prover_solutions == take(L.coinbase_memory_pool, MAX_PROVER_SOLUTIONS)
        partial_solutions ==
            [i \in 1..Len(prover_solutions) |-> prover_solutions[i].partial_solution]
        cumulative_prover_target == checked_sum(0, partial_solutions)
        failed(result) == [result |-> result, block |-> None]
    IN  IF cumulative_prover_target = None THEN failed("cumulative target overflowed")
        ELSE IF latest_block(L) = None THEN failed("no latest block")
        ELSE IF /\ ~without_coinbase(L, cumulative_prover_target[1])
                /\ latest_epoch_challenge(L) = None
             THEN failed("no epoch")
        ELSE LET reward == coinbase_reward(block_timestamp(latest_block(L)[1]), timestamp,
                                           latest_height(L) + 1)
                 rewards == prover_rewards(reward[1], partial_solutions,
                                           cumulative_prover_target[1], <<>>)
             IN  IF reward = None THEN failed("coinbase reward")
                 ELSE IF rewards.result # "ok" THEN failed(rewards.result)
                 ELSE [result |-> "ok",
                       block |-> proposed_block(L, private_key, timestamp,
                                                partial_solutions,
                                                cumulative_prover_target[1])]

\* MerkleTree::prove(leaf_index, leaf): None when the tree has no such leaf
\* at the index, otherwise the path of the leaf.
merkle_prove(tree, leaf_index, leaf) ==
    IF leaf_index >= Len(tree) THEN None
    ELSE IF tree[leaf_index + 1] # leaf THEN None
    ELSE Some([leaf_index |-> leaf_index, leaf |-> leaf])

\* Ledger::to_state_path: [result, path].  The transition and transaction
\* stores find the transaction of the commitment, the block store its block.
to_state_path(L, commitment) ==
    IF ~contains_commitment(L, commitment) THEN [result |-> "commitment not found"]
    ELSE LET transaction_id ==
                 CHOOSE id \in StoredTxIds(L) : commitment \in TxCatalog[id].commitments
             height == CHOOSE h \in DOMAIN L.blocks :
                           transaction_id \in Range(L.blocks[h].transactions)
             block == L.blocks[height]
             block_path == merkle_prove(L.block_tree, block_height(block), block.hash)
         IN  IF block_path = None THEN [result |-> "block path"]
             ELSE [result |-> "ok",
                   path |-> [state_root |-> latest_state_root(L),
                             block_path |-> block_path[1],
                             block_hash |-> block.hash,
                             previous_block_hash |-> block.previous_hash,
                             header_root |-> header_to_root(block.header),
                             transactions_root |-> block.header.transactions_root,
                             transaction_id |-> transaction_id,
                             transition_leaf |-> commitment]]

(***************************************************************************)
(* The state machine.                                                      *)
(***************************************************************************)
\* The fields of the ledger, and the argument and the result of a call of a
\* function that has no ledger.
VARIABLES current_hash, current_height, current_round, block_tree, blocks,
          validators, memory_pool, coinbase_memory_pool, vm, input, output

ledger_vars == <<current_hash, current_height, current_round, block_tree, blocks,
                 validators, memory_pool, coinbase_memory_pool, vm>>

vars == <<ledger_vars, input, output>>

\* The ledger value of the current state.
Self ==
    [current_hash |-> current_hash, current_height |-> current_height,
     current_round |-> current_round, block_tree |-> block_tree, blocks |-> blocks,
     validators |-> validators, memory_pool |-> memory_pool,
     coinbase_memory_pool |-> coinbase_memory_pool, vm |-> vm]

\* `*self = L`
Becomes(L) ==
    /\ current_hash' = L.current_hash
    /\ current_height' = L.current_height
    /\ current_round' = L.current_round
    /\ block_tree' = L.block_tree
    /\ blocks' = L.blocks
    /\ validators' = L.validators
    /\ memory_pool' = L.memory_pool
    /\ coinbase_memory_pool' = L.coinbase_memory_pool
    /\ vm' = L.vm
    /\ UNCHANGED <<input, output>>

\* A call returns: self is the ledger the call leaves behind.
Returns(call) == Becomes(call.self)

\* A call returns Ok.
ReturnsOk(call) == call.result = "ok" /\ Becomes(call.self)

\* The ledger that new_with_genesis makes before it adds the genesis block.
EmptyLedger(address) ==
    [current_hash |-> DefaultHash, current_height |-> 0, current_round |-> 0,
     block_tree |-> <<>>, blocks |-> <<>>, validators |-> <<address>>,
     memory_pool |-> <<>>, coinbase_memory_pool |-> <<>>, vm |-> {}]

\* Ledger::new_with_genesis: [result, self].
new_with_genesis(genesis, address) ==
    IF contains_block_height(EmptyLedger(address), 0)
    THEN [result |-> "genesis exists", self |-> EmptyLedger(address)]
    ELSE add_next_block(EmptyLedger(address), genesis)

\* The ledger after Ledger::new_with_genesis(genesis, signer of genesis).
GenesisLedger ==
    LET made == new_with_genesis(GenesisBlock, GenesisSigner)
    IN  /\ made.result = "ok"
        /\ current_hash = made.self.current_hash
        /\ current_height = made.self.current_height
        /\ current_round = made.self.current_round
        /\ block_tree = made.self.block_tree
        /\ blocks = made.self.blocks
        /\ validators = made.self.validators
        /\ memory_pool = made.self.memory_pool
        /\ coinbase_memory_pool = made.self.coinbase_memory_pool
        /\ vm = made.self.vm

\* The state after construction: no function is being called.
Init == GenesisLedger /\ input = None /\ output = None

\* A call of add_next_block.
AddNextBlock ==
    /\ Len(block_tree) < MaxBlocks
    /\ \E block \in CandidateBlocks(Self) : Returns(add_next_block(Self, block))

\* A call of add_to_memory_pool.
AddToMemoryPool ==
    /\ Len(memory_pool) < MaxPool
    /\ \E id \in UserTxIds : Returns(add_to_memory_pool(Self, id))

Next == AddNextBlock \/ AddToMemoryPool

Spec == Init /\ [][Next]_vars

\* A call of add_next_block that returns Ok.
AppendNextBlock ==
    /\ Len(block_tree) < MaxBlocks
    /\ \E block \in CandidateBlocks(Self) : ReturnsOk(add_next_block(Self, block))

NextAppends == AppendNextBlock \/ AddToMemoryPool

\* The ledger under add_to_memory_pool and successful add_next_block calls.
SpecAppends == Init /\ [][NextAppends]_vars

(***************************************************************************)
(* The ledger with its coinbase memory pool and the proposal of blocks.    *)
(***************************************************************************)
\* The most prover solutions the coinbase memory pool holds in the model.
MaxSolutions == 2

\* The nonces of the prover solutions: their targets are 600, 500 and 1.
Nonces == {1, 2, 3}

\* The epoch challenges a prover may work on: that of the latest epoch and
\* one of an epoch that is not the ledger's.
EpochChallenges(L) ==
    {EpochChallenge(1, DefaultHash)}
    \cup (IF latest_epoch_challenge(L) = None THEN {}
          ELSE {latest_epoch_challenge(L)[1]})

\* The first height of the epoch after the anchor block height at year 10.
AnchorEpochStart ==
    ((anchor_block_height(ANCHOR_TIME, 10) \div NUM_BLOCKS_PER_EPOCH) + 1)
        * NUM_BLOCKS_PER_EPOCH

\* The transactions of the blocks and of the memory pool of this ledger.
PoolTxIds == {1, 2, 3}

\* The blocks a caller hands to add_next_block on top of L: the block of one
\* transaction, and what differs from it in the coinbase solution, in the
\* height (the first height of a later epoch) or in the proof target.
PoolBlocks(L) ==
    LET challenge == latest_epoch_challenge(L)[1]
        all == accumulate(challenge, [n \in 1..3 |-> SolutionOf(challenge, n)])
        proofs == CoinbaseChoices(L) \cup {<<Some(all), to_accumulator_point(all)>>}
    IN  UNION {LET base == BaseChoice(L, <<id>>)
               IN  {BlockOf(base)}
                   \cup {BlockOf([base EXCEPT !.coinbase_proof = x[1],
                                              !.coinbase_accumulator_point = x[2]]) :
                            x \in proofs}
                   \cup {BlockOf([base EXCEPT !.height = h]) :
                            h \in {NUM_BLOCKS_PER_EPOCH, AnchorEpochStart}}
                   \cup {BlockOf([base EXCEPT !.proof_target = 501])}
                   \cup {BlockOf([base EXCEPT !.height = AnchorEpochStart,
                                              !.coinbase_proof = x[1],
                                              !.coinbase_accumulator_point = x[2]]) :
                            x \in {<<Some(all), to_accumulator_point(all)>>}} :
               id \in {i \in PoolTxIds : check_transaction(L, i) = "ok"}}

\* A call of add_to_memory_pool for a transaction of this ledger.
AddPoolTransaction ==
    /\ Len(memory_pool) < MaxPool
    /\ \E id \in PoolTxIds : Returns(add_to_memory_pool(Self, id))

\* A call of add_to_coinbase_memory_pool.
AddToCoinbaseMemoryPool ==
    /\ Len(coinbase_memory_pool) < MaxSolutions
    /\ \E nonce \in Nonces : \E epoch_challenge \in EpochChallenges(Self) :
          Returns(add_to_coinbase_memory_pool(Self, prove(epoch_challenge, nonce)))

\* propose_next_block and add_next_block of the proposed block.
AddProposedBlock ==
    /\ Len(block_tree) < MaxBlocks
    /\ memory_pool # <<>>
    /\ \E proposal \in {propose_next_block(Self, GenesisSigner,
                               block_timestamp(latest_block(Self)[1]) + 1)} :
          /\ proposal.result = "ok"
          /\ ReturnsOk(add_next_block(Self, proposal.block))

\* A call of add_next_block that returns Ok, for a block of a caller.
AppendPoolBlock ==
    /\ Len(block_tree) < MaxBlocks
    /\ \E block \in PoolBlocks(Self) : ReturnsOk(add_next_block(Self, block))

NextPools ==
    AddPoolTransaction \/ AddToCoinbaseMemoryPool \/ AddProposedBlock \/ AppendPoolBlock

\* The ledger under the admissions to both pools and successful appends.
SpecPools == Init /\ [][NextPools]_vars

(***************************************************************************)
(* The ledger with its validator set.                                      *)
(***************************************************************************)
\* The addresses that sign blocks and enter the validator set.
ValidatorAddresses == {"aleo1", "aleo2", "aleo3"}

\* The transactions of the blocks and of the memory pool of this ledger: an
\* execution and two deployments of one program.
SignedTxIds == {1, 3, 4}

\* The blocks a caller hands to add_next_block on top of L: the well-formed
\* block of one transaction, signed by each address.
SignedBlocks(L) ==
    {BlockOf([BaseChoice(L, <<id>>) EXCEPT !.signer = address]) :
        id \in SignedTxIds, address \in ValidatorAddresses}

\* A call of add_validator.
AddValidator ==
    /\ Len(validators) < Cardinality(ValidatorAddresses)
    /\ \E address \in ValidatorAddresses : Returns(add_validator(Self, address))

\* A call of remove_validator.
RemoveValidator ==
    /\ validators # <<>>
    /\ \E address \in ValidatorAddresses : Returns(remove_validator(Self, address))

\* A call of add_to_memory_pool; the pool holds one transaction more than
\* MaxPool.
AddSignedTransaction ==
    /\ Len(memory_pool) < MaxPool + 1
    /\ \E id \in SignedTxIds : Returns(add_to_memory_pool(Self, id))

\* A call of add_next_block with a signed block; a call that panics leaves
\* the ledger as it was.
AddSignedBlock ==
    /\ Len(block_tree) < MaxBlocks
    /\ \E block \in SignedBlocks(Self) : Returns(add_next_block(Self, block))

NextValidators ==
    AddValidator \/ RemoveValidator \/ AddSignedTransaction \/ AddSignedBlock

\* The ledger under the changes of the validator set, the admissions to the
\* memory pool and the calls of add_next_block.
SpecValidators == Init /\ [][NextValidators]_vars

(***************************************************************************)
(* CoinbaseSolution::verify on its own: the argument is a coinbase         *)
(* solution and the two targets, the result what verify returns.           *)
(***************************************************************************)
\* The epoch challenge the solutions are verified against.
VerifyChallenge == EpochChallenge(0, GenesisBlock.hash)

\* The lists of nonces of the partial solutions: every list of at most
\* MaxSolutions nonces.
NonceLists == UNION {[1..n -> Nonces] : n \in 0..MaxSolutions}

\* The arguments of verify: `count` partial solutions that repeat the list
\* `nonces`, a proof that is hiding or not and that opens these commitments
\* or none, and the targets.  One list is longer than MAX_NUM_PROOFS.
VerifyInputs ==
    [nonces : NonceLists \ {<<>>}, count : 1..MaxSolutions, hiding : BOOLEAN,
     opens : BOOLEAN, coinbase_target : {0, 600, 1101}, proof_target : {0, 2, 601}]
    \cup [nonces : {<<>>}, count : {0}, hiding : BOOLEAN, opens : BOOLEAN,
          coinbase_target : {0, 600}, proof_target : {0, 2}]
    \cup [nonces : {<<1>>}, count : {MAX_NUM_PROOFS + 1}, hiding : BOOLEAN,
          opens : {FALSE}, coinbase_target : {0, U64_MAX}, proof_target : {0}]

\* The coinbase solution of an argument.
CoinbaseSolutionOf(in) ==
    LET solutions ==
            [k \in 1..Len(in.nonces) |-> SolutionOf(VerifyChallenge, in.nonces[k])]
        partial_solutions ==
            [i \in 1..in.count |-> solutions[((i - 1) % Len(in.nonces)) + 1]]
    IN  [partial_solutions |-> partial_solutions,
         proof |-> [hiding |-> in.hiding,
                    opening |-> IF in.opens
                                THEN kzg_open(VerifyChallenge, partial_solutions)
                                ELSE kzg_open(EpochChallenge(1, DefaultHash), <<>>)]]

InitVerify ==
    /\ GenesisLedger
    /\ input \in {in \in VerifyInputs : in.count >= Len(in.nonces)}
    /\ output = None

\* A call of CoinbaseSolution::verify.
Verify ==
    /\ output = None
    /\ output' = Some(coinbase_solution_verify(CoinbaseSolutionOf(input), VerifyChallenge,
                                               input.coinbase_target,
                                               input.proof_target))
    /\ UNCHANGED <<ledger_vars, input>>

SpecVerify == InitVerify /\ [][Verify]_vars

(***************************************************************************)
(* The rewards of the provers in propose_next_block on their own: the      *)
(* argument is the coinbase reward and the targets of the selected prover  *)
(* solutions, the result what the loop over the solutions leaves.          *)
(***************************************************************************)
\* The coinbase rewards and the targets of the arguments: values of u64.
RewardValues == {0, 1, 1000, U64_MAX}
TargetValues == {0, 1, 600, U64_MAX}

\* The selected prover solutions with the given targets.
SolutionsWith(targets) ==
    [i \in 1..Len(targets) |->
        PartialSolution(GenesisSigner, i, prover_commitment(VerifyChallenge, GenesisSigner, i),
                        targets[i])]

InitRewards ==
    /\ GenesisLedger
    /\ input \in [coinbase_reward : RewardValues,
                   targets : UNION {[1..n -> TargetValues] : n \in 0..MaxSolutions}]
    /\ output = None

\* The cumulative target and the rewards of propose_next_block.
Rewards ==
    /\ output = None
    /\ LET partial_solutions == SolutionsWith(input.targets)
           cumulative_prover_target == checked_sum(0, partial_solutions)
       IN  output' = Some(IF cumulative_prover_target = None
                          THEN [result |-> "cumulative target overflowed",
                                prover_rewards |-> <<>>]
                          ELSE prover_rewards(input.coinbase_reward, partial_solutions,
                                              cumulative_prover_target[1], <<>>))
    /\ UNCHANGED <<ledger_vars, input>>

SpecRewards == InitRewards /\ [][Rewards]_vars

(***************************************************************************)
(* The ledger and a clone of it that an observer holds: `output` is the    *)
(* clone.  The stores of a clone are handles on the maps of the ledger.    *)
(***************************************************************************)
\* Ledger::clone by an observer of the ledger that new_with_genesis made.
TakeClone ==
    /\ output = None
    /\ Len(block_tree) = 1 /\ memory_pool = <<>>
    /\ output' = Some(Self)
    /\ UNCHANGED <<ledger_vars, input>>

NextClones == TakeClone \/ AppendNextBlock \/ AddToMemoryPool

SpecClones == Init /\ [][NextClones]_vars

\* What the observer reads through its clone: its own tip, tree, VM and
\* pools, and the block store that it shares with the ledger.
CloneView == [output[1] EXCEPT !.blocks = blocks]

(***************************************************************************)
(* Plaintext::parse.  A string is the sequence of its tokens, whitespace   *)
(* and comments left out; a parser returns [ok, rest, value].              *)
(***************************************************************************)
\* N::MAX_DATA_ENTRIES
MAX_DATA_ENTRIES == 32

\* The most members of the interfaces that are enumerated.
MaxMembers == 2

Token(kind, text) == [kind |-> kind, text |-> text]
Failed == [ok |-> FALSE]
Parsed(rest, value) == [ok |-> TRUE, rest |-> rest, value |-> value]

\* tag(kind)
tag(kind, string) ==
    IF string # <<>> /\ string[1].kind = kind THEN Parsed(Tail(string), kind)
    ELSE Failed

\* Identifier::parse
identifier_parse(string) ==
    IF string # <<>> /\ string[1].kind = "identifier"
    THEN Parsed(Tail(string), string[1].text)
    ELSE Failed

\* Literal::parse
literal_parse(string) ==
    IF string # <<>> /\ string[1].kind = "literal"
    THEN Parsed(Tail(string), [kind |-> "Literal", literal |-> string[1].text])
    ELSE Failed

\* has_duplicates on the names of the members.
has_duplicates(members) ==
    \E i, j \in 1..Len(members) : i # j /\ members[i][1] = members[j][1]

\* A variant of the check of the members that accepts repeated names.
check_members_any_name(members) == Len(members) <= MAX_DATA_ENTRIES

\* The closure that map_res applies to the members.
check_members(members) ==
    IF has_duplicates(members) THEN FALSE
    ELSE Len(members) <= MAX_DATA_ENTRIES

RECURSIVE plaintext_parse(_)
RECURSIVE parse_pair(_)
RECURSIVE separated_list(_, _)
RECURSIVE parse_interface(_)

\* parse_pair: `identifier: plaintext`.
parse_pair(string) ==
    LET identifier == identifier_parse(string)
    IN  IF ~identifier.ok THEN Failed
        ELSE IF ~tag(":", identifier.rest).ok THEN Failed
        ELSE LET plaintext == plaintext_parse(tag(":", identifier.rest).rest)
             IN  IF ~plaintext.ok THEN Failed
                 ELSE Parsed(plaintext.rest, <<identifier.value, plaintext.value>>)

\* The loop of separated_list1(tag(","), parse_pair) after its first
\* element: it stops before a separator that no pair follows.
separated_list(string, members) ==
    IF ~tag(",", string).ok THEN Parsed(string, members)
    ELSE LET pair == parse_pair(tag(",", string).rest)
         IN  IF ~pair.ok THEN Parsed(string, members)
             ELSE separated_list(pair.rest, Append(members, pair.value))

\* separated_list1(tag(","), parse_pair): at least one pair.
separated_list1(string) ==
    LET pair == parse_pair(string)
    IN  IF ~pair.ok THEN Failed ELSE separated_list(pair.rest, <<pair.value>>)

\* parse_interface: `{ identifier_0: plaintext_0, ..., identifier_n: plaintext_n }`;
\* IndexMap::from_iter keeps the members in the order of the list.
parse_interface(string) ==
    IF ~tag("{", string).ok THEN Failed
    ELSE LET members == separated_list1(tag("{", string).rest)
         IN  IF ~members.ok THEN Failed
             ELSE IF ~check_members(members.value) THEN Failed
             ELSE IF ~tag("}", members.rest).ok THEN Failed
             ELSE Parsed(tag("}", members.rest).rest,
                         [kind |-> "Interface", members |-> members.value])

\* Plaintext::parse: alt((Literal::parse, parse_interface))
plaintext_parse(string) ==
    IF literal_parse(string).ok THEN literal_parse(string) ELSE parse_interface(string)

\* Plaintext::from_str: the whole string is a plaintext.
from_str(string) ==
    LET parsed == plaintext_parse(string)
    IN  IF ~parsed.ok THEN Failed
        ELSE IF parsed.rest # <<>> THEN Failed
        ELSE parsed

\* The tokens of `{ name_1: value_1, ..., name_n: value_n }`, every value a
\* sequence of tokens.
RECURSIVE MemberTokens(_)
MemberTokens(members) ==
    IF members = <<>> THEN <<>>
    ELSE <<Token("identifier", members[1][1]), Token(":", 0)>> \o members[1][2]
         \o (IF Len(members) = 1 THEN <<>> ELSE <<Token(",", 0)>>)
         \o MemberTokens(Tail(members))

InterfaceTokens(members) ==
    <<Token("{", 0)>> \o MemberTokens(members) \o <<Token("}", 0)>>

\* The values of the members that are enumerated: a literal, and interfaces
\* of one member, of two members of one name and of no member.
MemberValues ==
    {<<Token("literal", 5)>>,
     InterfaceTokens(<<<<1, <<Token("literal", 5)>>>>>>),
     InterfaceTokens(<<<<1, <<Token("literal", 5)>>>>, <<1, <<Token("literal", 6)>>>>>>),
     InterfaceTokens(<<>>)}

\* The interfaces that are parsed: every list of at most MaxMembers members
\* with three names, and the lists of MAX_DATA_ENTRIES and of
\* MAX_DATA_ENTRIES + 1 members of different names.
ParseInputs ==
    UNION {[1..n -> {1, 2, 3} \X MemberValues] : n \in 0..MaxMembers}
    \cup {[i \in 1..n |-> <<i, <<Token("literal", 5)>>>>] :
             n \in {MAX_DATA_ENTRIES, MAX_DATA_ENTRIES + 1}}

InitParse ==
    /\ GenesisLedger
    /\ input \in ParseInputs
    /\ output = None

\* A call of Plaintext::from_str on the string of the interface.
Parse ==
    /\ output = None
    /\ output' = Some(from_str(InterfaceTokens(input)))
    /\ UNCHANGED <<ledger_vars, input>>

SpecParse == InitParse /\ [][Parse]_vars

(***************************************************************************)
(* check_next_block on its own: the ledger is one that new_with_genesis    *)
(* and add_next_block reach, the argument a block and the result the       *)
(* verdict of check_next_block.                                            *)
(***************************************************************************)
\* The ledger after new_with_genesis.
Genesis == new_with_genesis(GenesisBlock, GenesisSigner).self

\* The ledger inside new_with_genesis before it adds the genesis block, the
\* ledger after new_with_genesis, and the ledgers after one more block that
\* holds transaction 1 or the deployment 3.
CheckedLedgers ==
    {EmptyLedger(GenesisSigner), Genesis}
    \cup {add_next_block(Genesis, BlockOf(BaseChoice(Genesis, <<id>>))).self : id \in {1, 3}}

\* The transactions of the checked blocks.
CheckedTxIds == {0, 1, 3, 5, 6, 7, 8, 9}

\* The lists of transactions of the checked blocks: every list of at most
\* MaxTxs transactions, and on the ledger after new_with_genesis the list
\* of MAX_TRANSACTIONS + 1 transactions, each given by its length and its
\* named transactions.
CheckedLists(L) ==
    {[count |-> Len(ids), ids |-> ids] :
        ids \in UNION {[1..n -> CheckedTxIds] : n \in 0..MaxTxs}}
    \cup (IF L # Genesis THEN {} ELSE {[count |-> MAX_TRANSACTIONS + 1, ids |-> <<>>]})

\* The transactions of a list.
ListOf(list) ==
    IF list.count = Len(list.ids) THEN list.ids
    ELSE [i \in 1..list.count |-> BulkTxId + i - 1]

\* The genesis block of a list of transactions.
GenesisWith(transactions) ==
    Block(GenesisSigner, DefaultHash,
          Header(FieldZero, transactions_to_root(transactions), FieldZero,
                 GenesisBlock.header.metadata),
          transactions, None)

\* The block that is checked on L: the well-formed next block of the list
\* of transactions.
CheckedBlock(L, list) ==
    IF L.block_tree = <<>> THEN GenesisWith(ListOf(list))
    ELSE BlockOf(BaseChoice(L, ListOf(list)))

InitBlocks ==
    /\ \E L \in CheckedLedgers :
          /\ current_hash = L.current_hash
          /\ current_height = L.current_height
          /\ current_round = L.current_round
          /\ block_tree = L.block_tree
          /\ blocks = L.blocks
          /\ validators = L.validators
          /\ memory_pool = L.memory_pool
          /\ coinbase_memory_pool = L.coinbase_memory_pool
          /\ vm = L.vm
          /\ input \in CheckedLists(L)
    /\ output = None

\* A call of check_next_block.
CheckNextBlock ==
    /\ output = None
    /\ output' = Some(check_next_block(Self, CheckedBlock(Self, input)))
    /\ UNCHANGED <<ledger_vars, input>>

SpecBlocks == InitBlocks /\ [][CheckNextBlock]_vars

(***************************************************************************)
(* The ledger at the anchor block height at year 10: the heights that the  *)
(* first block on the genesis block may carry take the tip there.          *)
(***************************************************************************)
\* The height that starts the epoch of the anchor block height at year 10.
AnchorEpoch ==
    (anchor_block_height(ANCHOR_TIME, 10) \div NUM_BLOCKS_PER_EPOCH) * NUM_BLOCKS_PER_EPOCH

\* The transactions of the memory pool of this ledger.
AnchorTxIds == {1, 5}

\* The blocks a caller hands to add_next_block on top of L: the block of
\* transaction 1 at the next height and at the anchor block height, and the
\* block of the two deployments of one program at the height that starts
\* the epoch of the anchor block height.
AnchorBlocks(L) ==
    {BlockOf(BaseChoice(L, <<1>>)),
     BlockOf([BaseChoice(L, <<1>>) EXCEPT !.height = anchor_block_height(ANCHOR_TIME, 10)]),
     BlockOf([BaseChoice(L, <<3, 4>>) EXCEPT !.height = AnchorEpoch])}

\* A call of add_next_block with a block of a caller.
AddAnchorBlock ==
    /\ Len(block_tree) < MaxBlocks
    /\ \E block \in AnchorBlocks(Self) : Returns(add_next_block(Self, block))

\* A call of add_to_memory_pool for a transaction of this ledger.
AddAnchorTransaction ==
    /\ Len(memory_pool) < MaxPool
    /\ \E id \in AnchorTxIds : Returns(add_to_memory_pool(Self, id))

NextAnchor ==
    AddAnchorBlock \/ AddAnchorTransaction \/ AddToCoinbaseMemoryPool \/ AddProposedBlock

SpecAnchor == Init /\ [][NextAnchor]_vars

(***************************************************************************)
(* Ledger::from: a ledger is opened from the stores of the ledger, or from *)
(* empty stores.                                                           *)
(***************************************************************************)
\* Ledger::from(blocks, store): [result, self].  `store` is the program
\* store, the set of the deployed programs.  get_block and get_hash fail for
\* a height that the block store does not hold.
from(block_store, store) ==
    LET empty == DOMAIN block_store = {}
        stored == IF empty THEN blocks_insert(block_store, GenesisBlock) ELSE block_store
        latest == IF empty THEN block_height(GenesisBlock)
                  ELSE CHOOSE h \in DOMAIN block_store :
                          \A other \in DOMAIN block_store : other <= h
        failed(result) == [result |-> result, self |-> None]
    IN  IF 0 \notin DOMAIN stored THEN failed("no genesis block")
        ELSE IF \E height \in 0..latest : height \notin DOMAIN stored
             THEN failed("no block hash")
        ELSE [result |-> "ok",
              self |-> [current_hash |-> stored[latest].hash,
                        current_height |-> block_height(stored[latest]),
                        current_round |-> block_round(stored[latest]),
                        block_tree |-> [i \in 1..(latest + 1) |-> stored[i - 1].hash],
                        blocks |-> stored,
                        validators |-> <<stored[0].signature>>,
                        memory_pool |-> <<>>,
                        coinbase_memory_pool |-> <<>>,
                        vm |-> store]]

\* A call of add_next_block that returns Ok, before the stores are opened.
AppendToStores ==
    /\ output = None
    /\ AppendNextBlock

\* A call of Ledger::from on the stores of the ledger, which hold the blocks
\* it has accepted, or on empty stores.
FromStores ==
    /\ output = None
    /\ \/ output' = Some([stores |-> "ledger", made |-> from(blocks, vm)])
       \/ output' = Some([stores |-> "empty", made |-> from(<<>>, {})])
    /\ UNCHANGED <<ledger_vars, input>>

NextFrom == AppendToStores \/ FromStores

SpecFrom == Init /\ [][NextFrom]_vars

(***************************************************************************)
(* The accepted blocks: the block tree holds the hash of every block that  *)
(* add_next_block accepted, in the order of acceptance.                    *)
(***************************************************************************)
Accepted(i) == CHOOSE h \in DOMAIN blocks : blocks[h].hash = block_tree[i]
AcceptedBlock(i) == blocks[Accepted(i)]
AcceptedIndices == 1..Len(block_tree)

\* The values of a field of a transaction, as a set.
FieldValues(id, field) ==
    IF field = "program_id" THEN Range(TxCatalog[id].program_id)
    ELSE TxCatalog[id][field]

\* The places (block, transaction) of the accepted blocks where a value of a
\* field occurs.
Occurrences(field, x) ==
    {p \in AcceptedIndices \X (1..(MaxTxs + 1)) :
        /\ p[2] <= Len(AcceptedBlock(p[1]).transactions)
        /\ x \in FieldValues(AcceptedBlock(p[1]).transactions[p[2]], field)}

UniqueFields ==
    {"input_ids", "serial_numbers", "tags", "output_ids", "commitments", "nonces",
     "transition_public_keys", "transition_commitments", "program_id"}

AllValues(field) == UNION {FieldValues(id, field) : id \in NamedTxIds}

(***************************************************************************)
(* Claims.                                                                 *)
(***************************************************************************)

\* C1: when add_next_block returns an error, every part of the ledger (the
\* current hash, height and round, the block tree, the stores, the VM, the
\* validators and both pools) is what it was before the call.
C1_FailedAppendLeavesLedger ==
    \A block \in CandidateBlocks(Self) :
        add_next_block(Self, block).result # "ok"
            => add_next_block(Self, block).self = Self

\* C2: add_next_block succeeds if and only if check_next_block succeeds on
\* the same ledger state.
C2_AppendIffCheck ==
    \A block \in CandidateBlocks(Self) :
        (add_next_block(Self, block).result = "ok")
            <=> (check_next_block(Self, block) = "ok")

\* C3: in the accepted blocks every block hash, block height and transaction
\* ID and every value of the transactions' fields (serial numbers, commitments,
\* nonces, tags, input and output IDs, transition public keys and commitments,
\* program IDs) occurs once, also between two transactions of one block.
C3_CommittedValuesUnique ==
    /\ \A i, j \in AcceptedIndices :
          i # j => /\ block_tree[i] # block_tree[j]
                   /\ block_height(AcceptedBlock(i)) # block_height(AcceptedBlock(j))
                   /\ Range(AcceptedBlock(i).transactions)
                        \cap Range(AcceptedBlock(j).transactions) = {}
    /\ \A field \in UniqueFields : \A x \in AllValues(field) :
          Cardinality(Occurrences(field, x)) <= 1

\* C4: every accepted block but the genesis block has the height of the block
\* it extends plus one.
C4_HeightIsPreviousPlusOne ==
    \A i \in AcceptedIndices \ {1} :
        block_height(AcceptedBlock(i)) = block_height(AcceptedBlock(i - 1)) + 1

\* C5: every accepted block but the genesis block has a round greater than
\* the round of the block it extends.
C5_RoundIncreases ==
    \A i \in AcceptedIndices \ {1} :
        block_round(AcceptedBlock(i)) > block_round(AcceptedBlock(i - 1))

\* C6: the previous hash of every accepted block is the hash of the block
\* accepted before it (the default hash for the genesis block), and no two
\* accepted blocks extend the same block: one chain, no forks.
C6_HashLinkedChain ==
    /\ \A i \in AcceptedIndices :
          AcceptedBlock(i).previous_hash
            = IF i = 1 THEN DefaultHash ELSE block_tree[i - 1]
    /\ \A i, j \in AcceptedIndices :
          AcceptedBlock(i).previous_hash = AcceptedBlock(j).previous_hash => i = j

C6_Witness ==
    /\ Len(block_tree) = MaxBlocks
    /\ AcceptedBlock(MaxBlocks).previous_hash = block_tree[MaxBlocks - 1]

\* The blocks of one transaction that are well-formed but for a timestamp
\* that is at most the timestamp of the latest block.
LateBlocks(L) ==
    {BlockOf([BaseChoice(L, <<id>>) EXCEPT !.timestamp = GENESIS_TIMESTAMP + x]) :
        id \in UserTxIds,
        x \in {y \in 0..MaxTime :
                 GENESIS_TIMESTAMP + y <= block_timestamp(latest_block(L)[1])}}

\* C7: every accepted block but the genesis block has a timestamp greater
\* than that of the block it extends, and check_next_block rejects every
\* block whose timestamp is at most that of the latest block.
C7_TimestampIncreases ==
    /\ \A i \in AcceptedIndices \ {1} :
          block_timestamp(AcceptedBlock(i)) > block_timestamp(AcceptedBlock(i - 1))
    /\ \A block \in LateBlocks(Self) : check_next_block(Self, block) # "ok"

C7_Witness ==
    /\ Len(block_tree) >= 2
    /\ \E block \in LateBlocks(Self) :
          /\ block_timestamp(block) = block_timestamp(latest_block(Self)[1])
          /\ check_next_block(Self, block) = "timestamp"

\* C8: after a successful add_next_block, latest_height, latest_hash and
\* latest_round are the height, hash and round of the block just appended
\* (the last leaf of the block tree), and latest_block is that block.
C8_LatestIsAppendedBlock ==
    LET appended == AcceptedBlock(Len(block_tree))
    IN  /\ latest_hash(Self) = block_tree[Len(block_tree)]
        /\ latest_hash(Self) = appended.hash
        /\ latest_height(Self) = block_height(appended)
        /\ latest_round(Self) = block_round(appended)
        /\ latest_block(Self) = Some(appended)

C8_Witness ==
    /\ Len(block_tree) = MaxBlocks
    /\ latest_round(Self) > 0
    /\ latest_block(Self) = Some(AcceptedBlock(MaxBlocks))

\* C9: the block tree has current_height + 1 leaves, and leaf i is the hash
\* of the block stored at height i.
C9_BlockTreeLeaves ==
    /\ Len(block_tree) = current_height + 1
    /\ \A i \in 1..Len(block_tree) :
          /\ contains_block_height(Self, i - 1)
          /\ blocks[i - 1].hash = block_tree[i]

\* C10: under add_to_memory_pool and successful add_next_block calls, every
\* transaction in the memory pool passes check_transaction on the current
\* ledger.
C10_PoolPassesCheck ==
    \A i \in 1..Len(memory_pool) : check_transaction(Self, memory_pool[i]) = "ok"

\* An append has happened, and a further append removes a part of the pool.
C10_Witness ==
    /\ Len(block_tree) >= 2
    /\ Len(block_tree) < MaxBlocks
    /\ \E block \in CandidateBlocks(Self) :
          LET after == add_next_block(Self, block)
          IN  /\ after.result = "ok"
              /\ after.self.memory_pool # <<>>
              /\ Len(after.self.memory_pool) < Len(memory_pool)

\* The step is a successful add_next_block.
Appended == Len(block_tree') = Len(block_tree) + 1

\* The block that a successful add_next_block has appended.
AppendedBlock == blocks'[current_height']

\* C11: immediately after a successful add_next_block of a block whose epoch
\* number is greater than the epoch number of the tip before it, the coinbase
\* memory pool is empty.
C11_EpochAdvanceClearsSolutions ==
    [][(Appended /\ block_epoch_number(AppendedBlock)
                        > current_height \div NUM_BLOCKS_PER_EPOCH)
         => coinbase_memory_pool' = <<>>]_vars

\* The pool holds a solution, and a block that starts a new epoch is appended
\* and leaves the pool empty.
C11_Witness ==
    /\ coinbase_memory_pool # <<>>
    /\ Len(block_tree) < MaxBlocks
    /\ \E block \in PoolBlocks(Self) :
          /\ block_epoch_number(block) > latest_epoch_number(Self)
          /\ add_next_block(Self, block).result = "ok"
          /\ add_next_block(Self, block).self.coinbase_memory_pool = <<>>

\* C12: after a successful add_next_block of a block that carries a coinbase
\* proof, none of the partial solutions of the proof is in the coinbase memory
\* pool.
C12_AppendConsumesSolutions ==
    [][(Appended /\ AppendedBlock.coinbase_proof # None)
         => \A i \in 1..Len(coinbase_memory_pool') :
               coinbase_memory_pool'[i].partial_solution
                  \notin Range(AppendedBlock.coinbase_proof[1].partial_solutions)]_vars

\* C14: every block that add_next_block appends with a coinbase proof meets,
\* on the tip it extends: the sum of the targets of its partial solutions is
\* at least latest_coinbase_target, every target is at least
\* latest_proof_target, the KZG check holds for the latest epoch challenge,
\* and the height is at most anchor_block_height(ANCHOR_TIME, 10).
C14_AcceptedCoinbaseProofIsValid ==
    [][(Appended /\ AppendedBlock.coinbase_proof # None)
         => LET coinbase_proof == AppendedBlock.coinbase_proof[1]
                partial_solutions == coinbase_proof.partial_solutions
            IN  /\ SumTargets(partial_solutions) >= latest_coinbase_target(Self)
                /\ \A i \in 1..Len(partial_solutions) :
                      partial_solutions[i].target >= latest_proof_target(Self)
                /\ kzg_check(latest_epoch_challenge(Self)[1], coinbase_proof)
                /\ block_height(AppendedBlock) <= anchor_block_height(ANCHOR_TIME, 10)]_vars

\* On a tip with a proof target above zero a block with a coinbase proof is
\* accepted, and one whose proof holds a solution under the proof target is
\* rejected.
C14_Witness ==
    /\ Len(block_tree) < MaxBlocks
    /\ latest_proof_target(Self) > 0
    /\ \E block \in PoolBlocks(Self) :
          /\ block.coinbase_proof # None
          /\ add_next_block(Self, block).result = "ok"
    /\ \E block \in PoolBlocks(Self) :
          /\ block.coinbase_proof # None
          /\ \E i \in 1..Len(block.coinbase_proof[1].partial_solutions) :
                block.coinbase_proof[1].partial_solutions[i].target
                    < latest_proof_target(Self)
          /\ check_next_block(Self, block) = "coinbase proof"

\* C15: the header of every accepted block declares the accumulator point of
\* its coinbase proof, and the field zero when it has no coinbase proof.
C15_AccumulatorPointMatches ==
    \A i \in AcceptedIndices :
        LET block == AcceptedBlock(i)
        IN  block.header.coinbase_accumulator_point
              = IF block.coinbase_proof # None
                THEN to_accumulator_point(block.coinbase_proof[1])
                ELSE FieldZero

\* A block with a coinbase proof and a block without one are accepted.
C15_Witness ==
    /\ \E i \in AcceptedIndices : AcceptedBlock(i).coinbase_proof # None
    /\ \E i \in AcceptedIndices \ {1} : AcceptedBlock(i).coinbase_proof = None

\* x comes before y in the sequence s.
Before(s, x, y) ==
    \E i, j \in 1..Len(s) : i < j /\ s[i] = x /\ s[j] = y

\* The entries that s and t share are in the same order in both.
KeepsOrder(s, t) ==
    \A x, y \in Range(s) \cap Range(t) : Before(s, x, y) => Before(t, x, y)

\* C13: the memory pool and the validator set iterate in insertion order:
\* the entries that survive a step (a purge by add_next_block, a
\* remove_validator) keep the order they had.
C13_InsertionOrderKept ==
    [][/\ KeepsOrder(memory_pool, memory_pool')
       /\ KeepsOrder(validators, validators')]_vars

\* The blocks of SignedBlocks that are well-formed but for their signer.
UnauthorizedBlocks(L) ==
    {block \in SignedBlocks(L) :
        /\ block.signature \notin Range(L.validators)
        /\ check_transaction(L, block.transactions[1]) = "ok"}

\* C16: check_next_block fails for every block whose signer is not in the
\* validator set, every block that add_next_block appends is signed by an
\* address of the validator set, and new_with_genesis fails for an address
\* that is not the signer of the genesis block.
C16_SignerIsValidator ==
    /\ [](/\ \A block \in SignedBlocks(Self) :
                block.signature \notin Range(validators)
                    => check_next_block(Self, block) # "ok"
          /\ \A address \in ValidatorAddresses \ {GenesisBlock.signature} :
                new_with_genesis(GenesisBlock, address).result # "ok")
    /\ [][Appended => AppendedBlock.signature \in Range(validators)]_vars

\* A block has been appended, and a block that is well-formed but for a
\* signer outside the validator set is rejected for it.
C16_Witness ==
    /\ Len(block_tree) >= 2
    /\ validators # <<>>
    /\ \E block \in UnauthorizedBlocks(Self) :
          check_next_block(Self, block) = "validator"

\* C17: check_next_block returns an error and never panics, also when the
\* validator set is empty.
C17_CheckNeverPanics ==
    \A block \in SignedBlocks(Self) : check_next_block(Self, block) # "panic"

\* C18: add_to_memory_pool succeeds exactly when the transaction is not in
\* the memory pool and passes check_transaction; on success the transaction
\* is the last entry of the pool and nothing else has changed, on failure the
\* ledger is unchanged.
C18_MemoryPoolAdmission ==
    \A id \in UserTxIds :
        LET call == add_to_memory_pool(Self, id)
            admitted == /\ \A i \in 1..Len(memory_pool) : memory_pool[i] # id
                        /\ check_transaction(Self, id) = "ok"
        IN  /\ (call.result = "ok") <=> admitted
            /\ admitted => /\ call.self.memory_pool = memory_pool \o <<id>>
                            /\ [call.self EXCEPT !.memory_pool = memory_pool] = Self
            /\ ~admitted => call.self = Self

\* A block has been appended, and of three transactions one is admitted, one
\* is in the pool already and one does not pass check_transaction.
C18_Witness ==
    /\ Len(block_tree) >= 2
    /\ \E id \in UserTxIds : add_to_memory_pool(Self, id).result = "ok"
    /\ \E id \in UserTxIds : add_to_memory_pool(Self, id).result = "in memory pool"
    /\ \E id \in UserTxIds \ Range(memory_pool) :
          add_to_memory_pool(Self, id).result \notin {"ok", "in memory pool"}

\* The prover solutions handed to add_to_coinbase_memory_pool.
ProvedSolutions(L) ==
    {prove(epoch_challenge, nonce) :
        epoch_challenge \in EpochChallenges(L), nonce \in Nonces}

\* C19: add_to_coinbase_memory_pool succeeds exactly when latest_height is at
\* most anchor_block_height(ANCHOR_TIME, 10), the solution verifies for the
\* latest epoch challenge and proof target, and it is not in the coinbase
\* memory pool; a solution newly proved for the latest epoch challenge is
\* admitted iff its target is at least latest_proof_target; on failure the
\* ledger is unchanged.
C19_CoinbasePoolAdmission ==
    \A prover_solution \in ProvedSolutions(Self) :
        LET call == add_to_coinbase_memory_pool(Self, prover_solution)
            early == latest_height(Self) <= anchor_block_height(ANCHOR_TIME, 10)
            fresh == \A i \in 1..Len(coinbase_memory_pool) :
                        coinbase_memory_pool[i] # prover_solution
            admitted ==
                /\ early
                /\ latest_epoch_challenge(Self) # None
                /\ prover_solution_verify(prover_solution, latest_epoch_challenge(Self)[1],
                                           latest_proof_target(Self)) = "true"
                /\ fresh
        IN  /\ (call.result = "ok") <=> admitted
            /\ admitted =>
                  call.self = [Self EXCEPT !.coinbase_memory_pool =
                                              coinbase_memory_pool \o <<prover_solution>>]
            /\ ~admitted => call.self = Self
            /\ (/\ early
                /\ fresh
                /\ Some(prover_solution.partial_solution.commitment[1])
                     = latest_epoch_challenge(Self))
                  => ((call.result = "ok")
                        <=> prover_solution.partial_solution.target
                              >= latest_proof_target(Self))

\* The proof target is above zero, the pool holds a solution, and of the
\* solutions newly proved for the latest epoch one is admitted and one has a
\* target under the proof target and is rejected.
C19_Witness ==
    /\ latest_proof_target(Self) > 0
    /\ coinbase_memory_pool # <<>>
    /\ \E prover_solution \in ProvedSolutions(Self) :
          add_to_coinbase_memory_pool(Self, prover_solution).result = "ok"
    /\ \E prover_solution \in ProvedSolutions(Self) :
          /\ prover_solution.partial_solution.target < latest_proof_target(Self)
          /\ Some(prover_solution.partial_solution.commitment[1])
                = latest_epoch_challenge(Self)
          /\ add_to_coinbase_memory_pool(Self, prover_solution).result = "invalid"

\* The transactions of the block that propose_next_block builds on L.
Selected(L) ==
    propose_next_block(L, GenesisSigner,
                       block_timestamp(latest_block(L)[1]) + 1).block.transactions

\* The input IDs of the selected transactions among the first n of the pool.
SelectedInputsBefore(L, n) ==
    UNION {TxCatalog[L.memory_pool[j]].input_ids :
             j \in {k \in 1..(n - 1) : L.memory_pool[k] \in Range(Selected(L))}}

Proposal ==
    propose_next_block(Self, GenesisSigner, block_timestamp(latest_block(Self)[1]) + 1)

\* The sum of the targets of the solutions that the proposal selects.
SelectedTargets ==
    SumTargets([i \in 1..Len(take(coinbase_memory_pool, MAX_PROVER_SOLUTIONS)) |->
                   coinbase_memory_pool[i].partial_solution])

\* C21: a proposed block has a coinbase proof exactly when the latest height
\* is at most the anchor height at year 10 and the targets of the selected
\* solutions sum to the latest coinbase target or more; without a proof the
\* accumulator point is zero, with one it is that of the proof.
C21_ProposalCoinbaseProof ==
    Proposal.result = "ok" =>
        LET block == Proposal.block
            within == /\ latest_height(Self) <= anchor_block_height(ANCHOR_TIME, 10)
                      /\ SelectedTargets >= latest_coinbase_target(Self)
        IN  /\ (block.coinbase_proof # None) <=> within
            /\ ~within => /\ block.coinbase_proof = None
                          /\ block.header.coinbase_accumulator_point = FieldZero
            /\ within => block.header.coinbase_accumulator_point
                            = to_accumulator_point(block.coinbase_proof[1])

\* C21: a ledger whose pool reaches the coinbase target proposes a block
\* with a coinbase proof.
C21_Witness ==
    /\ Len(coinbase_memory_pool) = 2
    /\ SelectedTargets >= latest_coinbase_target(Self)
    /\ Proposal.result = "ok"
    /\ Proposal.block.coinbase_proof # None
    /\ Proposal.block.header.coinbase_accumulator_point # FieldZero

\* The transactions of the accepted blocks.
CommittedTxIds == UNION {Range(AcceptedBlock(i).transactions) : i \in AcceptedIndices}

\* C22, but for VM::finalize of an execution: a transaction of an accepted
\* block is in the ledger, fails check_transaction and add_to_memory_pool, is
\* not in the memory pool, and as a deployment fails VM::finalize.
C22_CommittedStaysCommitted ==
    \A id \in CommittedTxIds :
        /\ contains_transaction_id(Self, id)
        /\ check_transaction(Self, id) # "ok"
        /\ add_to_memory_pool(Self, id).result # "ok"
        /\ id \notin Range(memory_pool)
        /\ TxCatalog[id].kind = "Deploy" => ~vm_finalize(vm, id).ok

\* C22 with VM::finalize of every committed transaction.
C22_CommittedFailsFinalize ==
    \A id \in CommittedTxIds : ~vm_finalize(vm, id).ok

\* The genesis block that a signer makes.
GenesisOf(signer) ==
    Block(signer, DefaultHash, GenesisBlock.header, GenesisBlock.transactions, None)

\* C23: new_with_genesis(genesis, address of its signer) on empty stores
\* returns a ledger at height 0 whose latest hash and round are those of
\* the genesis block, whose block at height 0 is the genesis block and whose
\* pools are empty.
C23_GenesisLedger ==
    \A address \in Addresses :
        LET genesis == GenesisOf(address)
            made == new_with_genesis(genesis, address)
        IN  /\ made.result = "ok"
            /\ latest_height(made.self) = 0
            /\ latest_hash(made.self) = genesis.hash
            /\ latest_round(made.self) = block_round(genesis)
            /\ contains_block_height(made.self, 0)
            /\ made.self.blocks[0] = genesis
            /\ latest_block(made.self) = Some(genesis)
            /\ made.self.memory_pool = <<>>
            /\ made.self.coinbase_memory_pool = <<>>

\* C23: the state right after new_with_genesis.
C23_Witness ==
    /\ Self = new_with_genesis(GenesisOf(GenesisSigner), GenesisSigner).self
    /\ latest_height(Self) = 0
    /\ block_tree = <<GenesisBlock.hash>>

\* The commitments of the transactions of the accepted blocks.
CommittedCommitments == UNION {TxCatalog[id].commitments : id \in CommittedTxIds}

\* C24: to_state_path(c) succeeds exactly for the commitments of the
\* transactions of the accepted blocks, and the block leaf of the path it
\* returns (the block hash at the index of the block height) is a leaf of
\* the current block tree, whose root is the state root of the path.
C24_StatePath ==
    \A c \in AllValues("commitments") :
        LET call == to_state_path(Self, c)
        IN  /\ call.result = "ok" <=> c \in CommittedCommitments
            /\ call.result = "ok" =>
                  /\ call.path.state_root = latest_state_root(Self)
                  /\ call.path.block_path.leaf = call.path.block_hash
                  /\ call.path.block_path.leaf_index < Len(block_tree)
                  /\ block_tree[call.path.block_path.leaf_index + 1]
                        = call.path.block_hash
                  /\ blocks[call.path.block_path.leaf_index].hash = call.path.block_hash

\* The targets of the partial solutions of the argument of verify.
VerifyTargets ==
    {SolutionOf(VerifyChallenge, input.nonces[i]).target : i \in 1..Len(input.nonces)}

\* The sum of the targets of the partial solutions of the argument.
VerifySum == SumTargets(CoinbaseSolutionOf(input).partial_solutions)

\* C25: verify returns an error for an empty solution list, then for a list
\* longer than MAX_NUM_PROOFS, then for a hiding proof, then for a sum of the
\* targets that overflows or is below the coinbase target, then for a target
\* below the proof target, each error only when the checks before it have
\* passed; otherwise it returns Ok of the KZG check.
C25_VerifyOrder ==
    output # None =>
        LET result == output[1]
            short == input.count <= MAX_NUM_PROOFS
        IN  /\ input.count = 0 <=> result = "empty"
            /\ input.count > MAX_NUM_PROOFS <=> result = "too many"
            /\ input.count > 0 /\ short /\ input.hiding <=> result = "hiding"
            /\ result = "overflow" =>
                  /\ input.count > 0 /\ short /\ ~input.hiding
                  /\ VerifySum > U128_MAX
            /\ (/\ input.count > 0 /\ short /\ ~input.hiding
                 /\ VerifySum <= U128_MAX /\ VerifySum < input.coinbase_target)
                  <=> result = "coinbase target"
            /\ (/\ input.count > 0 /\ short /\ ~input.hiding
                 /\ VerifySum <= U128_MAX /\ VerifySum >= input.coinbase_target
                 /\ \E target \in VerifyTargets : target < input.proof_target)
                  <=> result = "proof target"
            /\ result \in {"empty", "too many", "hiding", "overflow", "coinbase target",
                            "proof target", "true", "false"}
            /\ result = "true"
                  <=> /\ input.count > 0 /\ short /\ ~input.hiding
                      /\ VerifySum <= U128_MAX /\ VerifySum >= input.coinbase_target
                      /\ \A target \in VerifyTargets : target >= input.proof_target
                      /\ kzg_check(VerifyChallenge, CoinbaseSolutionOf(input))

\* C25: verify returns the error of the hiding proof for a solution that also
\* misses both targets.
C25_Witness ==
    /\ output = Some("hiding")
    /\ input.count = 2
    /\ VerifySum < input.coinbase_target
    /\ \E target \in VerifyTargets : target < input.proof_target

\* The sum of the targets of the argument of the rewards.
RewardsCumulative == SumTargets(SolutionsWith(input.targets))

\* C26: the reward of every selected prover solution is the floor of
\* coinbase_reward * target / (2 * cumulative target) and fits a u64, with a
\* numerator and a denominator that fit a u128; with solutions whose targets
\* sum to zero the proposal fails, and nothing else makes the rewards fail.
C26_ProverRewards ==
    output # None =>
        LET call == output[1]
            reward == input.coinbase_reward
            cumulative == RewardsCumulative
        IN  IF input.targets # <<>> /\ cumulative = 0 THEN call.result # "ok"
            ELSE /\ call.result = "ok"
                 /\ Len(call.prover_rewards) = Len(input.targets)
                 /\ \A i \in 1..Len(input.targets) :
                       LET paid == call.prover_rewards[i][2]
                       IN  /\ reward * input.targets[i] <= U128_MAX
                           /\ 2 * cumulative <= U128_MAX
                           /\ paid <= U64_MAX
                           /\ paid * (2 * cumulative) <= reward * input.targets[i]
                           /\ reward * input.targets[i]
                                 < (paid + 1) * (2 * cumulative)

\* C26: two solutions are rewarded, one of them with a quotient that is
\* rounded down.
C26_Witness ==
    /\ output # None
    /\ output[1].result = "ok"
    /\ Len(output[1].prover_rewards) = 2
    /\ \E i \in 1..2 :
          /\ output[1].prover_rewards[i][2] > 0
          /\ output[1].prover_rewards[i][2] * (2 * RewardsCumulative)
                < input.coinbase_reward * input.targets[i]

\* C27: what the holder of a clone of the ledger reads is a complete ledger:
\* the block store holds the blocks of the block tree of the clone and no
\* other, and the latest block is the block of the current hash, height and
\* round of the clone.
C27_AppendIsAtomic ==
    output # None =>
        /\ \A h \in DOMAIN CloneView.blocks :
              CloneView.blocks[h].hash \in Range(CloneView.block_tree)
        /\ \A i \in 1..Len(CloneView.block_tree) :
              contains_block_hash(CloneView, CloneView.block_tree[i])
        /\ latest_block(CloneView) # None
        /\ latest_block(CloneView)[1].hash = latest_hash(CloneView)

\* The members of the parsed interface are literals.
FlatInput == \A i \in 1..Len(input) : input[i][2][1].kind = "literal"

\* C28: parsing rejects an interface with two members of one name, one with
\* more than MAX_DATA_ENTRIES members and the empty interface; the members
\* of a parsed interface are those of the string in its order.
C28_InterfaceParsing ==
    output # None =>
        /\ (\E i, j \in 1..Len(input) : i # j /\ input[i][1] = input[j][1])
              => ~output[1].ok
        /\ Len(input) > MAX_DATA_ENTRIES => ~output[1].ok
        /\ input = <<>> => ~output[1].ok
        /\ output[1].ok =>
              /\ output[1].value.kind = "Interface"
              /\ Len(output[1].value.members) = Len(input)
              /\ \A i \in 1..Len(input) :
                    /\ output[1].value.members[i][1] = input[i][1]
                    /\ output[1].value.members[i][2] = plaintext_parse(input[i][2]).value

\* C28: an interface of two members is parsed.
C28_Witness ==
    /\ output # None
    /\ output[1].ok
    /\ Len(input) = 2
    /\ FlatInput
    /\ output[1].value.members[1][1] > output[1].value.members[2][1]

\* Whether every transaction of the list passes check_transaction, taken in
\* the given order up to the first that fails.
RECURSIVE all_in_order(_, _)
all_in_order(transactions, order) ==
    IF order = <<>> THEN TRUE
    ELSE IF check_transaction(Self, transactions[order[1]]) # "ok" THEN FALSE
    ELSE all_in_order(transactions, Tail(order))

\* C29: check_next_block rejects a block with no transaction, with more
\* than MAX_TRANSACTIONS transactions or with a transaction that fails
\* check_transaction on the ledger; the verdict on the transactions is the
\* same in whatever order they are checked.
C29_TransactionsChecked ==
    output # None =>
        /\ input.count = 0 => output[1] # "ok"
        /\ input.count > MAX_TRANSACTIONS => output[1] # "ok"
        /\ input.count = Len(input.ids) =>
              /\ (\E i \in 1..Len(input.ids) : check_transaction(Self, input.ids[i]) # "ok")
                    => output[1] # "ok"
              /\ \A order \in DistinctSeqs(1..Len(input.ids), Len(input.ids)) :
                    Len(order) = Len(input.ids) =>
                        all_in_order(input.ids, order)
                          = ~invalid_transaction_found(Self, input.ids)

\* C29: a block is rejected for its second transaction, which fails
\* check_transaction after a first that passes.
C29_Witness ==
    /\ output = Some("invalid transaction")
    /\ Len(input.ids) = 2
    /\ check_transaction(Self, input.ids[1]) = "ok"
    /\ check_transaction(Self, input.ids[2]) # "ok"

\* The height of the block that is checked.
CheckedHeight == IF block_tree = <<>> THEN 0 ELSE current_height + 1

\* C30: check_next_block rejects a block of a height above 0 with a
\* transition that calls credits.aleo/genesis or has a negative fee; a
\* block of height 0 is rejected for neither.
C30_FeesChecked ==
    output # None /\ input.count = Len(input.ids) =>
        LET calls == \E i \in 1..Len(input.ids) : TxCatalog[input.ids[i]].calls_genesis
            negative == \E i \in 1..Len(input.ids) : TxCatalog[input.ids[i]].negative_fee
        IN  /\ CheckedHeight > 0 /\ (calls \/ negative) => output[1] # "ok"
            /\ CheckedHeight = 0 => output[1] \notin {"genesis function", "negative fee"}
            /\ CheckedHeight = 0 /\ input.ids \in {<<0>>, <<0, 9>>, <<9, 8>>}
                  => output[1] = "ok"
            /\ output[1] \in {"genesis function", "negative fee"}
                  => CheckedHeight > 0 /\ (calls \/ negative)

\* C30: a block of height 1 is rejected for the negative fee of its second
\* transaction.
C30_Witness ==
    /\ output = Some("negative fee")
    /\ CheckedHeight = 1
    /\ Len(input.ids) = 2
    /\ ~TxCatalog[input.ids[1]].negative_fee

\* C30: a block of height 0 with a transaction that calls the genesis
\* function and one of negative fee is accepted.
C30_GenesisAccepted ==
    /\ output = Some("ok")
    /\ CheckedHeight = 0
    /\ \E i \in 1..Len(input.ids) : TxCatalog[input.ids[i]].calls_genesis
    /\ \E i \in 1..Len(input.ids) : TxCatalog[input.ids[i]].negative_fee

(***************************************************************************)
(* C31: the origins of the transactions.                                   *)
(***************************************************************************)
\* The origins of the transactions of the checked list.
CheckedOrigins == UNION {TxCatalog[id].origins : id \in Range(input.ids)}

\* The commitments of the transactions of the checked list.
CheckedCommitments == UNION {TxCatalog[id].commitments : id \in Range(input.ids)}

\* C31: check_transaction and check_next_block reject an origin that is a
\* state root, and an origin that is a commitment the ledger does not hold
\* before the block is appended; no accepted block has a transaction with
\* an origin that is a commitment of a transaction of the same block.
C31_OriginsChecked ==
    /\ \A id \in CheckedTxIds :
          (\E o \in TxCatalog[id].origins :
              \/ o[1] = "StateRoot"
              \/ o[1] = "Commitment" /\ ~contains_commitment(Self, o[2]))
            => check_transaction(Self, id) # "ok"
    /\ output # None /\ input.count = Len(input.ids) =>
          /\ (\E o \in CheckedOrigins :
                  \/ o[1] = "StateRoot"
                  \/ o[1] = "Commitment" /\ ~contains_commitment(Self, o[2]))
                => output[1] # "ok"
          /\ output[1] = "ok" =>
                \A o \in CheckedOrigins :
                    o[1] = "Commitment" /\ o[2] \notin CheckedCommitments

\* C31: a block is rejected for the origin of its second transaction, the
\* commitment that its first transaction creates.
C31_Witness ==
    /\ output = Some("origin")
    /\ Len(input.ids) = 2
    /\ TxCatalog[input.ids[1]].origins = {}
         \/ \A o \in TxCatalog[input.ids[1]].origins : ~invalid_origin(Self, o)
    /\ \E o \in TxCatalog[input.ids[2]].origins :
          o[1] = "Commitment" /\ o[2] \in TxCatalog[input.ids[1]].commitments

\* C31: a block is rejected for an origin that is a state root.
C31_StateRootRejected ==
    /\ output = Some("origin")
    /\ \E o \in CheckedOrigins : o[1] = "StateRoot"

(***************************************************************************)
(* C32: the validator set.                                                 *)
(***************************************************************************)
\* C32: add_validator fails exactly for an address of the validator set and
\* remove_validator exactly for an address outside it; a call that fails
\* leaves the ledger as it was, one that succeeds makes the address a
\* member (add) or a non-member (remove), keeps every other address and
\* changes neither the tip, the stores nor the pools.
C32_ValidatorSetEdits ==
    \A address \in ValidatorAddresses :
        LET added == add_validator(Self, address)
            removed == remove_validator(Self, address)
            member == \E i \in 1..Len(validators) : validators[i] = address
        IN  /\ (added.result # "ok") <=> member
            /\ (removed.result # "ok") <=> ~member
            /\ added.result # "ok" => added.self = Self
            /\ removed.result # "ok" => removed.self = Self
            /\ added.result = "ok" =>
                  /\ Range(added.self.validators) = Range(validators) \cup {address}
                  /\ [added.self EXCEPT !.validators = validators] = Self
            /\ removed.result = "ok" =>
                  /\ Range(removed.self.validators) = Range(validators) \ {address}
                  /\ [removed.self EXCEPT !.validators = validators] = Self

\* C32: after an add_validator and a remove_validator, with a block
\* appended and a transaction in the memory pool, the validator set holds
\* two addresses and not the genesis signer.
C32_Witness ==
    /\ Len(validators) = 2
    /\ GenesisSigner \notin Range(validators)
    /\ Len(block_tree) >= 2
    /\ memory_pool # <<>>

(***************************************************************************)
(* C33: the header of a proposed block.                                    *)
(***************************************************************************)
\* The readings of the clock at a proposal: a second and ANCHOR_TIME
\* seconds after the latest block.
ProposalTimes ==
    {block_timestamp(latest_block(Self)[1]) + d : d \in {1, ANCHOR_TIME}}

\* C33: a block that propose_next_block returns has the latest hash as its
\* previous hash, the next height and round, the latest state root, the
\* root of the selected transactions, the coinbase target that
\* coinbase_target gives for the latest target and the two timestamps, and
\* the proof target of that coinbase target.
C33_ProposedHeader ==
    \A private_key \in Addresses : \A timestamp \in ProposalTimes :
        LET proposal == propose_next_block(Self, private_key, timestamp)
            block == proposal.block
            target == coinbase_target(latest_coinbase_target(Self),
                                      block_timestamp(latest_block(Self)[1]), timestamp)
        IN  proposal.result = "ok" =>
                /\ block.previous_hash = latest_hash(Self)
                /\ block_height(block) = latest_height(Self) + 1
                /\ block_round(block) = latest_round(Self) + 1
                /\ block_timestamp(block) = timestamp
                /\ block.header.state_root = latest_state_root(Self)
                /\ block.transactions = select_transactions(memory_pool, <<>>, {})
                /\ block.header.transactions_root
                     = transactions_to_root(select_transactions(memory_pool, <<>>, {}))
                /\ block.header.metadata.coinbase_target = target
                /\ block.header.metadata.proof_target = proof_target(target)

\* C33: a proposed block has been appended (only a proposal changes the
\* coinbase target), and the ledger proposes the next one from a memory
\* pool that holds a transaction.
C33_Witness ==
    /\ Len(block_tree) >= 2
    /\ latest_coinbase_target(Self) # GENESIS_COINBASE_TARGET
    /\ memory_pool # <<>>
    /\ Proposal.result = "ok"
    /\ Proposal.block.header.metadata.coinbase_target # latest_coinbase_target(Self)

(***************************************************************************)
(* C34: Ledger::from.                                                      *)
(***************************************************************************)
\* C34: Ledger::from on the stores that hold the accepted blocks of the
\* ledger returns a ledger with its current hash, height and round and its
\* block tree root; on empty stores it returns a ledger with the tip of
\* new_with_genesis; its validator set is the signer of the genesis block.
C34_FromStores ==
    output # None =>
        /\ output[1].made.result = "ok"
        /\ output[1].made.self.validators = <<GenesisSigner>>
        /\ LET opened == output[1].made.self
               L == IF output[1].stores = "ledger" THEN Self ELSE Genesis
           IN  /\ opened.current_hash = L.current_hash
               /\ opened.current_height = L.current_height
               /\ opened.current_round = L.current_round
               /\ latest_state_root(opened) = latest_state_root(L)

(***************************************************************************)
(* C35: a proposed block and check_next_block.                             *)
(***************************************************************************)
\* C35: a block that propose_next_block returns for a proposer of the
\* validator set, from a memory pool that holds a transaction, passes
\* check_next_block on the ledger it was proposed on.
C35_ProposalPassesCheck ==
    \A private_key \in Range(validators) : \A timestamp \in ProposalTimes :
        LET proposal == propose_next_block(Self, private_key, timestamp)
        IN  memory_pool # <<>> /\ proposal.result = "ok"
                => check_next_block(Self, proposal.block) = "ok"

(***************************************************************************)
(* C36, C37: the targets and the state root of the accepted blocks.        *)
(***************************************************************************)
\* C36: every accepted block but the genesis block declares the coinbase
\* target that coinbase_target gives for the target and the timestamp of
\* the block it extends and its own timestamp, and the proof target of
\* that coinbase target.
C36_AcceptedTargets ==
    \A i \in AcceptedIndices \ {1} :
        LET block == AcceptedBlock(i)
            previous == AcceptedBlock(i - 1)
            target == coinbase_target(previous.header.metadata.coinbase_target,
                                      block_timestamp(previous), block_timestamp(block))
        IN  /\ block.header.metadata.coinbase_target = target
            /\ block.header.metadata.proof_target = proof_target(target)

\* C37: every accepted block but the genesis block declares the state root
\* of the block tree it was appended to, the root over the hashes of the
\* blocks accepted before it.
C37_AcceptedStateRoot ==
    \A i \in AcceptedIndices \ {1} :
        AcceptedBlock(i).header.state_root
            = latest_state_root([block_tree |-> SubSeq(block_tree, 1, i - 1)])

(***************************************************************************)
(* C38: the solutions of the coinbase memory pool.                         *)
(***************************************************************************)
\* C38: every prover solution of the coinbase memory pool verifies for the
\* epoch challenge and the proof target of the latest block.
C38_PoolSolutionsValid ==
    \A i \in 1..Len(coinbase_memory_pool) :
        /\ latest_epoch_challenge(Self) # None
        /\ prover_solution_verify(coinbase_memory_pool[i], latest_epoch_challenge(Self)[1],
                                  latest_proof_target(Self)) = "true"

(***************************************************************************)
(* C39: the sum of the rewards of the provers.                             *)
(***************************************************************************)
\* The sum of the rewards of a list of (address, reward).
RECURSIVE SumRewards(_)
SumRewards(rewards) ==
    IF rewards = <<>> THEN 0 ELSE rewards[1][2] + SumRewards(Tail(rewards))

\* C39: when the rewards of a non-empty list of selected solutions are
\* computed, their sum is at most half the coinbase reward, and so is each
\* of them.
C39_RewardsWithinHalf ==
    output # None /\ input.targets # <<>> /\ output[1].result = "ok" =>
        /\ SumRewards(output[1].prover_rewards) <= input.coinbase_reward \div 2
        /\ \A i \in 1..Len(output[1].prover_rewards) :
              output[1].prover_rewards[i][2] <= input.coinbase_reward \div 2

\* C39: two solutions are rewarded and share half the coinbase reward.
C39_Witness ==
    /\ output # None
    /\ output[1].result = "ok"
    /\ Len(output[1].prover_rewards) = 2
    /\ \A i \in 1..2 : output[1].prover_rewards[i][2] > 0
    /\ SumRewards(output[1].prover_rewards) = input.coinbase_reward \div 2

(***************************************************************************)
(* C40: the anchor block height in the proposal, the check and the pool.   *)
(***************************************************************************)
\* C40: a block with a coinbase proof that is proposed from a memory pool
\* with a transaction has a height of at most
\* anchor_block_height(ANCHOR_TIME, 10), and check_next_block does not
\* reject it for a coinbase proof after the anchor block height.
C40_AnchorGatesAgree ==
    memory_pool # <<>> /\ Proposal.result = "ok" /\ Proposal.block.coinbase_proof # None =>
        /\ block_height(Proposal.block) <= anchor_block_height(ANCHOR_TIME, 10)
        /\ check_next_block(Self, Proposal.block) # "coinbase after year 10"

====
